---- MODULE Spec2Model ----
(***************************************************************************)
(* State-machine model of the minute pipeline of trading_system_new:       *)
(*   tick_json_saver.py  ->  candle_builder_1m.py                          *)
(*   -> comprehensive_analytics_engine.py -> alert_engine_pro.py           *)
(*                                                                         *)
(* Conventions                                                             *)
(*  - A minute bucket "YYYY-MM-DD HH:MM" is an integer 0..MaxMinute; the   *)
(*    string order the SQL uses is the integer order.                      *)
(*  - Python None / SQL NULL of a numeric column is a negative sentinel.   *)
(*  - REAL ratios are kept exactly: a ratio r is stored as r * 10000       *)
(*    (round(r, 4)), a priority-weighted quantity q as q * 10.             *)
(*  - A table is a bag of rows (a function row -> number of copies), so    *)
(*    that a duplicate row is a state the model can express.               *)
(***************************************************************************)
EXTENDS Integers, Sequences, FiniteSets, TLC

VARIABLES
    now,        \* wall-clock minute (datetime.now(IST) truncated to the minute)
    ticks,      \* tick_json_data.db : ticks_json, in id (= arrival) order
    candles,    \* minute_candles.db : minute_candles, a bag of rows
    lastRun,    \* history: the latest process_new_ticks call and what it did
    txn,        \* candle builder: the open transaction of its output connection
    futures_oi_category_1m,  \* oi_analysis.db : futures_oi_category_1m
    analytics,            \* market_analytics.db : minute_analytics
    sector_analytics,     \* market_analytics.db : sector_analytics
    market_direction,     \* market_analytics.db : market_direction
    candles_1m,           \* indicator engine memory: symbol -> closes appended
    candles_5m,           \* indicator engine memory: symbol -> 5-minute candles
    executed,             \* history: every minute_analytics row an INSERT wrote
    faults,               \* history: failed commits and restarts of the engine
    main_loop,            \* indicator engine main: error_count, running or stopped
    failed_cycles,        \* history: failed cycles of the engine in a row
    alerts,               \* alerts_pro.db : alerts_final, in id order
    telegram,             \* the sendMessage requests made, each with its outcome
    last_processed_time,  \* alerts_pro.db : alert_state['last_processed_time']
    pending_signal_state, \* alert engine memory: symbol -> pending signal
    alert_cooldown_state, \* alert engine memory: symbol -> last alert sent
    call        \* history: the latest direct call of a pure function

feedVars == <<now, ticks>>
oiVars == <<futures_oi_category_1m>>
candleVars == <<candles, lastRun, txn>>
analyticsVars == <<analytics, sector_analytics, market_direction, candles_1m, candles_5m,
                   executed, faults, main_loop, failed_cycles>>
alertVars == <<alerts, telegram, last_processed_time, pending_signal_state,
               alert_cooldown_state>>
vars == <<now, ticks, futures_oi_category_1m, candles, lastRun, txn, analytics,
          sector_analytics, market_direction, candles_1m, candles_5m, executed, faults, main_loop,
          failed_cycles, alerts, telegram,
          last_processed_time, pending_signal_state, alert_cooldown_state, call>>

-----------------------------------------------------------------------------
(* Bounds of the model *)

\* SpecCandle: the last wall-clock minute and the number of ticks stored
MaxMinute == 1
MaxTicks == 2

\* Spec: the last wall-clock minute and the number of ticks stored
Horizon == 3
FeedLen == 3

\* SpecCalls: the latest minute handed to a function
CallSpan == 6

\* SpecBucket: the number of ticks of the bucket handed to process_minute_candle
BucketLen == 3

\* SpecOI: the last wall-clock minute and the number of ticks stored
OIMinute == 1
OITicks == 4

\* SpecBudget: how many failed cycles in a row are followed
BudgetCap == 11

\* SpecIndicator: the closed candle minutes the engine starts on, and how
\* many commits may fail or restarts happen
StreamLen == 20
RedoCap == 2

\* SpecAlert: the last wall-clock minute and the number of ticks stored
AlertMinute == 2
AlertTicks == 2

\* SpecDelivery: the number of ticks stored
DeliveryTicks == 3

\* SpecGate: the last wall-clock minute and the number of ticks stored
GateMinute == 2
GateTicks == 2

\* SpecCycle: the last wall-clock minute and the number of ticks stored
CycleMinute == 1
CycleTicks == 3

(* Sentinels *)
NoMinute == -1
NoValue == -2

\* a ts_ist that is not "YYYY-MM-DD HH:MM:SS": strftime gives NULL in SQL (no
\* minute is greater than it) and datetime.strptime raises ValueError
BadStamp == -3

-----------------------------------------------------------------------------
(* Bags of rows *)

EmptyTable == << >>

Rows(table) == DOMAIN table

Copies(table, r) == IF r \in DOMAIN table THEN table[r] ELSE 0

AddRow(table, r) ==
    [x \in DOMAIN table \cup {r} |-> Copies(table, x) + (IF x = r THEN 1 ELSE 0)]

\* the rows of S, with the copies the table holds of them
Keep(table, S) == [x \in S \cap DOMAIN table |-> table[x]]

\* SELECT COUNT(*) over the rows of S
CountRows(table, S) ==
    LET RECURSIVE Sum(_)
        Sum(T) == IF T = {} THEN 0
                  ELSE LET x == CHOOSE y \in T : TRUE
                       IN  table[x] + Sum(T \ {x})
    IN  Sum(S \cap DOMAIN table)

\* the columns cols of a row: its primary key
Key(r, cols) == [c \in cols |-> r[c]]

\* INSERT OR REPLACE under the primary key cols
Upsert(table, row, cols) ==
    AddRow(Keep(table, {r \in Rows(table) : Key(r, cols) # Key(row, cols)}), row)

\* INSERT OR REPLACE of every row of rows, each with a key of its own: the
\* table's rows under other keys stay, and one copy of every row written
UpsertAll(table, rows, cols) ==
    LET keys == {Key(r, cols) : r \in rows}
        kept == {x \in Rows(table) : Key(x, cols) \notin keys}
        written == {CHOOSE r \in rows : Key(r, cols) = k : k \in keys}
    IN  [x \in kept \cup written |-> IF x \in kept THEN table[x] ELSE 1]

\* the sum of a function's values
SumOver(f) ==
    LET RECURSIVE Sum(_)
        Sum(T) == IF T = {} THEN 0
                  ELSE LET x == CHOOSE y \in T : TRUE
                       IN  f[x] + Sum(T \ {x})
    IN  Sum(DOMAIN f)

-----------------------------------------------------------------------------
(* candle_builder_1m.py : configuration *)

Tokens == {"BANKNIFTY", "NIFTY"}

\* BUYER_THRESHOLD = 1.2 and SELLER_THRESHOLD = 0.8, in tenths
BUYER_THRESHOLD == 12
SELLER_THRESHOLD == 8

\* DEPTH_WEIGHTS = [1.0, 0.8, 0.6, 0.4, 0.2], in tenths
DEPTH_WEIGHTS == <<10, 8, 6, 4, 2>>

\* the 999.0 sentinel ratio of an empty ask side
RatioSentinel == 999

\* A rational r = n / d (d > 0), the value of a Python float expression
Ratio(n, d) == [n |-> n, d |-> d]

\* round(r, 4), kept as the integer r * 10000
Round4(r) == (2 * 10000 * r.n + r.d) \div (2 * r.d)

\* The parsed tick_json of on_ticks: lp, vol, and up to 5 quantities per side.
\* ok = FALSE is a tick whose JSON does not parse.
Payload(lp, vol, bid, ask) == [ok |-> TRUE, lp |-> lp, vol |-> vol, bid |-> bid, ask |-> ask]

Malformed == [ok |-> FALSE, lp |-> NoValue, vol |-> NoValue, bid |-> << >>, ask |-> << >>]

\* The payloads the tick feed delivers in this model
TickPayloads ==
    { Payload(1, 1, <<3>>, <<2>>),
      Payload(2, 0, <<1, 1>>, <<3>>),
      Payload(NoValue, 2, << >>, << >>),
      Malformed }

\* the feed of the whole-pipeline specification: a buyer-side book (weighted
\* ratio 1.5) and a strongly buyer-side book (2.5)
FeedTokens == {"BANKNIFTY"}

FeedPayloads ==
    { Payload(1, 1, <<3>>, <<2>>),
      Payload(1, 1, <<5>>, <<2>>) }

-----------------------------------------------------------------------------
(* candle_builder_1m.py : per-bucket computation *)

\* a variant of max(prices) that takes the first price
SeqFirst(s) == s[1]

SeqMax(s) == CHOOSE x \in {s[i] : i \in DOMAIN s} : \A j \in DOMAIN s : s[j] <= x

SeqMin(s) == CHOOSE x \in {s[i] : i \in DOMAIN s} : \A j \in DOMAIN s : x <= s[j]

\* compute_depth_metrics: (total_qty, weighted_qty * 10)
compute_depth_metrics(depth_array, weights) ==
    LET RECURSIVE Total(_), Weighted(_)
        Total(i) == IF i = 0 THEN 0 ELSE depth_array[i] + Total(i - 1)
        Weighted(i) ==
            IF i = 0 THEN 0
            ELSE (IF i <= Len(weights) THEN depth_array[i] * weights[i] ELSE 0)
                 + Weighted(i - 1)
    IN  [total |-> Total(Len(depth_array)), weighted |-> Weighted(Len(depth_array))]

\* extract_last_tick_depth: the depth sums of one tick, zeros when it does not parse
extract_last_tick_depth(tick) ==
    IF ~tick.ok
    THEN [total_bid_qty |-> 0, total_ask_qty |-> 0,
          weighted_bid_qty |-> 0, weighted_ask_qty |-> 0]
    ELSE LET b == compute_depth_metrics(tick.bid, DEPTH_WEIGHTS)
             a == compute_depth_metrics(tick.ask, DEPTH_WEIGHTS)
         IN  [total_bid_qty |-> b.total, total_ask_qty |-> a.total,
              weighted_bid_qty |-> b.weighted, weighted_ask_qty |-> a.weighted]

\* a variant of calculate_bias whose thresholds are inclusive
calculate_bias_inclusive(ratio, buyer_threshold, seller_threshold) ==
    IF 10 * ratio.n >= buyer_threshold * ratio.d THEN "BUYER_DOMINANT"
    ELSE IF 10 * ratio.n <= seller_threshold * ratio.d THEN "SELLER_DOMINANT"
    ELSE "NEUTRAL"

\* calculate_bias, on an exact ratio and thresholds in tenths
calculate_bias(ratio, buyer_threshold, seller_threshold) ==
    IF 10 * ratio.n > buyer_threshold * ratio.d THEN "BUYER_DOMINANT"
    ELSE IF 10 * ratio.n < seller_threshold * ratio.d THEN "SELLER_DOMINANT"
    ELSE "NEUTRAL"

\* the "safe divide" of process_minute_candle
SafeRatio(bid, ask) ==
    IF ask > 0 THEN Ratio(bid, ask)
    ELSE IF bid > 0 THEN Ratio(RatioSentinel, 1) ELSE Ratio(1, 1)

NoCandle == [none |-> TRUE]

\* a variant that reads the depth of the bucket's first tick
FirstTick(minute_ticks) == minute_ticks[1]

\* minute_ticks[-1]: the tick whose depth snapshot the candle carries
LastTick(minute_ticks) == minute_ticks[Len(minute_ticks)]


\* process_minute_candle: minute_ticks is the bucket's ticks in timestamp order
process_minute_candle(minute_ticks) ==
    LET parsed  == SelectSeq(minute_ticks, LAMBDA t : t.data.ok)
        priced  == SelectSeq(parsed, LAMBDA t : t.data.lp # NoValue)
        prices  == [i \in DOMAIN priced |-> priced[i].data.lp]
        withVol == SelectSeq(parsed, LAMBDA t : t.data.vol # NoValue)
        volumes == [i \in DOMAIN withVol |-> withVol[i].data.vol]
    IN
    IF Len(minute_ticks) = 0 THEN NoCandle
    ELSE IF Len(prices) = 0 THEN NoCandle
    ELSE
    LET volume ==
            IF Len(volumes) >= 2
            THEN (IF volumes[Len(volumes)] - volumes[1] < 0
                  THEN volumes[Len(volumes)]
                  ELSE volumes[Len(volumes)] - volumes[1])
            ELSE IF Len(volumes) = 1 THEN volumes[1]
            ELSE 0
        depth == extract_last_tick_depth(LastTick(minute_ticks).data)
        ratio == SafeRatio(depth.total_bid_qty, depth.total_ask_qty)
        wratio == SafeRatio(depth.weighted_bid_qty, depth.weighted_ask_qty)
    IN  [open |-> prices[1],
         high |-> SeqMax(prices),
         low |-> SeqMin(prices),
         close |-> prices[Len(prices)],
         volume |-> volume,
         total_bid_qty |-> depth.total_bid_qty,
         total_ask_qty |-> depth.total_ask_qty,
         bid_ask_ratio |-> Round4(ratio),
         order_imbalance |-> depth.total_bid_qty - depth.total_ask_qty,
         bid_ask_bias |-> calculate_bias(ratio, BUYER_THRESHOLD, SELLER_THRESHOLD),
         weighted_bid_qty |-> depth.weighted_bid_qty,
         weighted_ask_qty |-> depth.weighted_ask_qty,
         weighted_bid_ask_ratio |-> Round4(wratio),
         weighted_order_imbalance |-> depth.weighted_bid_qty - depth.weighted_ask_qty,
         weighted_bias |-> calculate_bias(wratio, BUYER_THRESHOLD, SELLER_THRESHOLD)]

-----------------------------------------------------------------------------
(* candle_builder_1m.py : incremental processing *)

\* PRIMARY KEY (instrument_token, time_minute)
CandlePK == {"instrument_token", "time_minute"}

CandleKey(r) == <<r.instrument_token, r.time_minute>>

\* a plain INSERT, which keeps a row of the same key
InsertCandle(table, row) == AddRow(table, row)

\* INSERT OR REPLACE INTO minute_candles, PRIMARY KEY (instrument_token, time_minute)
UpsertCandle(table, row) == Upsert(table, row, CandlePK)

\* SELECT MAX(time_minute) FROM minute_candles (None on an empty table)
get_last_completed_minute ==
    IF Rows(candles) = {} THEN NoMinute
    ELSE CHOOSE m \in {r.time_minute : r \in Rows(candles)} :
            \A r \in Rows(candles) : r.time_minute <= m

\* the WHERE clause of process_new_ticks (ALLOWED_TOKENS = None)
FetchTicks(last_completed_minute) ==
    SelectSeq(ticks, LAMBDA t :
        last_completed_minute = NoMinute \/ t.minute > last_completed_minute)

\* minute_buckets[instrument_token][time_minute], already in ts_ist order
BucketTicks(fetched, tok, minute) ==
    SelectSeq(fetched, LAMBDA t : t.tok = tok /\ t.minute = minute)

\* the rows one process_new_ticks call writes: one per bucket with a valid price
CycleRows(last_completed_minute) ==
    LET fetched == FetchTicks(last_completed_minute)
        keys == {<<fetched[i].tok, fetched[i].minute>> : i \in DOMAIN fetched}
        built == { [instrument_token |-> k[1], time_minute |-> k[2]]
                       @@ process_minute_candle(BucketTicks(fetched, k[1], k[2])) :
                   k \in keys }
    IN  {r \in built : "none" \notin DOMAIN r}

\* the candle table after the write loop and the commit of process_new_ticks
WriteAll(table, rows) ==
    LET RECURSIVE Write(_, _)
        Write(t, rs) ==
            IF rs = {} THEN t
            ELSE LET r == CHOOSE x \in rs : TRUE
                 IN  Write(UpsertCandle(t, r), rs \ {r})
    IN  Write(table, rows)

-----------------------------------------------------------------------------
(* alert_engine_pro.py : configuration *)

Symbols == <<"BANKNIFTY", "NIFTY">>

MIN_CONFIDENCE == 60
ALERT_COOLDOWN_MINUTES == 5
CONFIDENCE_CHANGE_THRESHOLD == 10
HIGH_VIX == 18
LOW_VIX == 12
ExtremeVix == 25

\* current_vix of comprehensive_analytics_engine.py, which nothing reassigns
current_vix == 15

OICategories == {"LB", "SB", "SC", "LU"}
DepthBiases == {"BUYER_DOMINANT", "SELLER_DOMINANT", "NEUTRAL"}
AlertRegimes == {"TRENDING_UP", "TRENDING_DOWN", "RANGING", "HIGH_VOLATILITY"}
VixStates == {"LOW", "NORMAL", "HIGH", "EXTREME"}
TradeActions == {"BUY_CE", "BUY_PE", "SELL_CE_PREMIUM", "SELL_PE_PREMIUM"}

\* a variant of the cap lookup that caps nothing
NoRegimeCap(regime) == 100

\* REGIME_CONFIDENCE_CAPS, with the .get(..., 100) default
RegimeCap(regime) ==
    CASE regime = "TRENDING_UP" -> 100
      [] regime = "TRENDING_DOWN" -> 100
      [] regime = "RANGING" -> 65
      [] regime = "HIGH_VOLATILITY" -> 55
      [] OTHER -> 100

\* REGIME_CONFIDENCE_SCALE in thousandths, with the .get(..., 1.0) default
RegimeScale(regime) ==
    CASE regime = "TRENDING_UP" -> 1000
      [] regime = "TRENDING_DOWN" -> 1000
      [] regime = "RANGING" -> 850
      [] regime = "HIGH_VOLATILITY" -> 700
      [] OTHER -> 1000

\* int(x * f) for a float factor f given in thousandths.  IEEE doubles give
\* floor(x * f) for every 0 <= x <= 129 and every factor used here, except
\* 90 * 0.7 = 62.99999999999999.
TruncMul(x, f) ==
    IF f = 700 /\ x = 90 THEN 62 ELSE (x * f) \div 1000

Abs(x) == IF x < 0 THEN -x ELSE x

-----------------------------------------------------------------------------
(* alert_engine_pro.py : cooldown and 2-minute confirmation *)

\* A dict keyed by symbol is a function whose domain is the set of keys present.
NoState == << >>

Put(dict, key, value) ==
    [k \in DOMAIN dict \cup {key} |-> IF k = key THEN value ELSE dict[k]]

Pop(dict, key) == [k \in DOMAIN dict \ {key} |-> dict[k]]

\* a variant without the frequency override: the confidence is not looked at
is_in_cooldown_by_time(cooldown, symbol, action, current_time, current_confidence) ==
    /\ symbol \in DOMAIN cooldown
    /\ cooldown[symbol].last_alert_action = action
    /\ current_time - cooldown[symbol].last_alert_time < ALERT_COOLDOWN_MINUTES

\* is_in_cooldown(symbol, action, current_time_str, current_confidence)
is_in_cooldown(cooldown, symbol, action, current_time, current_confidence) ==
    IF symbol \notin DOMAIN cooldown THEN FALSE
    ELSE LET state == cooldown[symbol]
             elapsed_minutes == current_time - state.last_alert_time
         IN  IF state.last_alert_action # action THEN FALSE
             ELSE IF elapsed_minutes < ALERT_COOLDOWN_MINUTES
                  THEN (IF Abs(current_confidence - state.last_alert_confidence)
                              >= CONFIDENCE_CHANGE_THRESHOLD
                        THEN FALSE
                        ELSE TRUE)
                  ELSE FALSE

\* update_cooldown_state(symbol, action, time_str, confidence)
update_cooldown_state(cooldown, symbol, action, time, confidence) ==
    Put(cooldown, symbol,
        [last_alert_time |-> time,
         last_alert_action |-> action,
         last_alert_confidence |-> confidence])

\* the test that lets a pending signal fire; a variant that forgets the action
ConfirmsIgnoringAction(pending_action, action, elapsed) ==
    0 < elapsed /\ elapsed <= 2

\* a variant that accepts the minute the signal was recorded in
ConfirmsSameMinute(pending_action, action, elapsed) ==
    pending_action = action /\ 0 <= elapsed /\ elapsed <= 2

\* pending_action == action and 0 < elapsed <= 2
Confirms(pending_action, action, elapsed) ==
    pending_action = action /\ 0 < elapsed /\ elapsed <= 2

\* a variant of the gate that keeps the pending record when it passes
check_signal_confirmation_keep(pending, symbol, action, current_minute) ==
    LET fresh == [pending_action |-> action, pending_time |-> current_minute]
    IN
    IF symbol \notin DOMAIN pending
    THEN [passed |-> FALSE, pending |-> Put(pending, symbol, fresh)]
    ELSE LET pending_action == pending[symbol].pending_action
             elapsed == current_minute - pending[symbol].pending_time
         IN  IF Confirms(pending_action, action, elapsed)
             THEN [passed |-> TRUE, pending |-> pending]
             ELSE IF pending_action # action \/ elapsed > 2
                  THEN [passed |-> FALSE, pending |-> Put(pending, symbol, fresh)]
                  ELSE [passed |-> FALSE, pending |-> pending]

\* check_signal_confirmation(symbol, action, time_str):
\* the returned flag, and pending_signal_state after the call
check_signal_confirmation(pending, symbol, action, current_minute) ==
    LET fresh == [pending_action |-> action, pending_time |-> current_minute]
    IN
    IF symbol \notin DOMAIN pending
    THEN [passed |-> FALSE, pending |-> Put(pending, symbol, fresh)]
    ELSE LET pending_action == pending[symbol].pending_action
             elapsed == current_minute - pending[symbol].pending_time
         IN  IF Confirms(pending_action, action, elapsed)
             THEN [passed |-> TRUE, pending |-> Pop(pending, symbol)]
             ELSE IF pending_action # action \/ elapsed > 2
                  THEN [passed |-> FALSE, pending |-> Put(pending, symbol, fresh)]
                  ELSE [passed |-> FALSE, pending |-> pending]

-----------------------------------------------------------------------------
(* alert_engine_pro.py : scoring *)

\* a variant of the weight that gives every category the full weight
get_oi_weight_flat(oi_category) == 1000

\* get_oi_weight, in thousandths
get_oi_weight(oi_category) ==
    IF oi_category \in {"LB", "SB"} THEN 1000
    ELSE IF oi_category \in {"SC", "LU"} THEN 600
    ELSE 1000

\* get_depth_strength: label and multiplier (thousandths) for a
\* weighted_bid_ask_ratio given in ten-thousandths, NoValue when it is NULL
get_depth_strength(weighted_ratio) ==
    IF weighted_ratio = NoValue THEN [label |-> "UNKNOWN", mult |-> 1000]
    ELSE IF weighted_ratio > 20000 THEN [label |-> "STRONG_BUYER", mult |-> 1200]
    ELSE IF weighted_ratio >= 12000 THEN [label |-> "BUYER", mult |-> 1000]
    ELSE IF weighted_ratio >= 8000 THEN [label |-> "NEUTRAL", mult |-> 800]
    ELSE IF weighted_ratio >= 5000 THEN [label |-> "SELLER", mult |-> 1000]
    ELSE [label |-> "STRONG_SELLER", mult |-> 1200]

normalize_sector_signal(signal) ==
    IF signal = "BUY" THEN "BULLISH"
    ELSE IF signal = "SELL" THEN "BEARISH"
    ELSE "NEUTRAL"

\* "" stands for a NULL column
get_depth_bias_from_analytics(analytics_row) ==
    IF analytics_row.weighted_bias \in DepthBiases THEN analytics_row.weighted_bias
    ELSE IF analytics_row.bid_ask_bias \in DepthBiases THEN analytics_row.bid_ask_bias
    ELSE "NEUTRAL"

OIBullish(oi_category) == oi_category \in {"LB", "SC"}
OIBearish(oi_category) == oi_category \in {"SB", "LU"}

calculate_confidence(oi_category, depth_bias, sector_bias, index_bias, regime, vix_state, weighted_ratio) ==
    LET oi_weight == get_oi_weight(oi_category)
        depth_multiplier == get_depth_strength(weighted_ratio).mult
        oi_bullish == OIBullish(oi_category)
        oi_bearish == OIBearish(oi_category)
        depth_bullish == depth_bias = "BUYER_DOMINANT"
        depth_bearish == depth_bias = "SELLER_DOMINANT"
        oi_depth_agree == (oi_bullish /\ depth_bullish) \/ (oi_bearish /\ depth_bearish)
        base == IF oi_depth_agree THEN 40
                ELSE IF oi_bullish \/ oi_bearish \/ depth_bullish \/ depth_bearish
                     THEN 20 ELSE 0
        oi_depth_points == TruncMul(TruncMul(base, oi_weight), depth_multiplier)
        sector_points ==
            IF sector_bias = "BULLISH" /\ (oi_bullish \/ depth_bullish) THEN 30
            ELSE IF sector_bias = "BEARISH" /\ (oi_bearish \/ depth_bearish) THEN 30
            ELSE IF sector_bias = "NEUTRAL" THEN 15 ELSE 0
        index_points ==
            IF index_bias = "BULLISH" /\ (oi_bullish \/ depth_bullish) THEN 20
            ELSE IF index_bias = "BEARISH" /\ (oi_bearish \/ depth_bearish) THEN 20
            ELSE IF index_bias = "MIXED" THEN 10 ELSE 0
        regime_points ==
            IF regime = "TRENDING_UP" /\ (oi_bullish \/ depth_bullish) THEN 5
            ELSE IF regime = "TRENDING_DOWN" /\ (oi_bearish \/ depth_bearish) THEN 5
            ELSE 0
        vix_points ==
            IF vix_state \in {"LOW", "NORMAL"} THEN 5
            ELSE IF vix_state = "HIGH" THEN 2 ELSE 0
        raw == oi_depth_points + sector_points + index_points
                 + regime_points + vix_points
        conflict == /\ ~oi_depth_agree
                    /\ oi_category # "NA"
                    /\ \/ oi_bullish /\ depth_bearish
                       \/ oi_bearish /\ depth_bullish
        halved == IF conflict THEN TruncMul(raw, 500) ELSE raw
        scaled == TruncMul(halved, RegimeScale(regime))
        regime_cap == RegimeCap(regime)
        capped == IF scaled > regime_cap THEN regime_cap ELSE scaled
        floored == IF capped < 0 THEN 0 ELSE capped
    IN  IF floored > 100 THEN 100 ELSE floored

classify_alert_type(oi_category, depth_bias, regime) ==
    LET bullish_signal == OIBullish(oi_category) \/ depth_bias = "BUYER_DOMINANT"
        bearish_signal == OIBearish(oi_category) \/ depth_bias = "SELLER_DOMINANT"
    IN  IF regime = "RANGING" THEN "RANGE_PLAY"
        ELSE IF regime = "TRENDING_UP" /\ bullish_signal THEN "TREND_CONTINUATION"
        ELSE IF regime = "TRENDING_DOWN" /\ bearish_signal THEN "TREND_CONTINUATION"
        ELSE IF regime = "TRENDING_UP" /\ bearish_signal THEN "REVERSAL_SETUP"
        ELSE IF regime = "TRENDING_DOWN" /\ bullish_signal THEN "REVERSAL_SETUP"
        ELSE "NO_TRADE"

\* a variant of the rule that always reports two confirmations
check_multi_confirmation_lenient(oi_category, depth_bias, sector_bias, index_bias, regime) ==
    <<"OI+Depth", "Regime">>

\* the list of confirmations; the rule passes when it has two entries or more
check_multi_confirmation(oi_category, depth_bias, sector_bias, index_bias, regime) ==
    (IF \/ OIBullish(oi_category) /\ depth_bias = "BUYER_DOMINANT"
        \/ OIBearish(oi_category) /\ depth_bias = "SELLER_DOMINANT"
     THEN <<"OI+Depth">> ELSE << >>)
    \o (IF sector_bias \in {"BULLISH", "BEARISH"} THEN <<"Sector">> ELSE << >>)
    \o (IF index_bias \in {"BULLISH", "BEARISH"} THEN <<"Index">> ELSE << >>)
    \o (IF regime \in {"TRENDING_UP", "TRENDING_DOWN"} THEN <<"Regime">> ELSE << >>)

\* a variant whose thresholds are exclusive
grade_alert_quality_strict(confidence) ==
    IF confidence > 80 THEN "A+"
    ELSE IF confidence > 70 THEN "A"
    ELSE IF confidence > 60 THEN "B"
    ELSE "SKIP"

\* ALERT_QUALITY_THRESHOLDS: A+ 80, A 70, B 60
grade_alert_quality(confidence) ==
    IF confidence >= 80 THEN "A+"
    ELSE IF confidence >= 70 THEN "A"
    ELSE IF confidence >= 60 THEN "B"
    ELSE "SKIP"

Bit(b) == IF b THEN 1 ELSE 0

\* a variant without the HIGH_VOLATILITY branch: the regime is played as a range
decide_action_no_wait(oi_category, depth_bias, sector_bias, index_bias, regime, vix_state) ==
    LET bullish_signals == Bit(OIBullish(oi_category)) + Bit(depth_bias = "BUYER_DOMINANT")
                             + Bit(sector_bias = "BULLISH") + Bit(index_bias = "BULLISH")
        bearish_signals == Bit(OIBearish(oi_category)) + Bit(depth_bias = "SELLER_DOMINANT")
                             + Bit(sector_bias = "BEARISH") + Bit(index_bias = "BEARISH")
    IN  IF regime \in {"HIGH_VOLATILITY", "RANGING"}
        THEN IF bullish_signals >= 2 THEN "SELL_PE_PREMIUM"
             ELSE IF bearish_signals >= 2 THEN "SELL_CE_PREMIUM" ELSE "WAIT"
        ELSE IF regime = "TRENDING_UP"
        THEN IF bullish_signals >= 2 THEN "BUY_CE"
             ELSE IF bearish_signals >= 2 THEN "BUY_PE" ELSE "WAIT"
        ELSE IF bearish_signals >= 2 THEN "BUY_PE"
             ELSE IF bullish_signals >= 2 THEN "BUY_CE" ELSE "WAIT"

\* a variant that acts on one agreeing signal
decide_action_single(oi_category, depth_bias, sector_bias, index_bias, regime, vix_state) ==
    LET bullish_signals == Bit(OIBullish(oi_category)) + Bit(depth_bias = "BUYER_DOMINANT")
                             + Bit(sector_bias = "BULLISH") + Bit(index_bias = "BULLISH")
        bearish_signals == Bit(OIBearish(oi_category)) + Bit(depth_bias = "SELLER_DOMINANT")
                             + Bit(sector_bias = "BEARISH") + Bit(index_bias = "BEARISH")
    IN  IF regime = "HIGH_VOLATILITY" THEN "WAIT"
        ELSE IF regime = "RANGING"
        THEN IF bullish_signals >= 1 THEN "SELL_PE_PREMIUM"
             ELSE IF bearish_signals >= 1 THEN "SELL_CE_PREMIUM" ELSE "WAIT"
        ELSE IF regime = "TRENDING_UP"
        THEN IF bullish_signals >= 1 THEN "BUY_CE"
             ELSE IF bearish_signals >= 1 THEN "BUY_PE" ELSE "WAIT"
        ELSE IF bearish_signals >= 1 THEN "BUY_PE"
             ELSE IF bullish_signals >= 1 THEN "BUY_CE" ELSE "WAIT"

decide_action(oi_category, depth_bias, sector_bias, index_bias, regime, vix_state) ==
    LET bullish_signals == Bit(OIBullish(oi_category)) + Bit(depth_bias = "BUYER_DOMINANT")
                             + Bit(sector_bias = "BULLISH") + Bit(index_bias = "BULLISH")
        bearish_signals == Bit(OIBearish(oi_category)) + Bit(depth_bias = "SELLER_DOMINANT")
                             + Bit(sector_bias = "BEARISH") + Bit(index_bias = "BEARISH")
    IN  CASE regime = "HIGH_VOLATILITY" -> "WAIT"
          [] regime = "RANGING" ->
               IF bullish_signals >= 2 THEN "SELL_PE_PREMIUM"
               ELSE IF bearish_signals >= 2 THEN "SELL_CE_PREMIUM" ELSE "WAIT"
          [] regime = "TRENDING_UP" ->
               IF bullish_signals >= 2 THEN "BUY_CE"
               ELSE IF bearish_signals >= 2 THEN "BUY_PE" ELSE "WAIT"
          [] regime = "TRENDING_DOWN" ->
               IF bearish_signals >= 2 THEN "BUY_PE"
               ELSE IF bullish_signals >= 2 THEN "BUY_CE" ELSE "WAIT"
          [] OTHER -> "NO_TRADE"

detect_regime(analytics_row) ==
    IF analytics_row.market_regime \in AlertRegimes THEN analytics_row.market_regime
    ELSE "RANGING"

detect_vix_state(analytics_row) ==
    LET vix_close == analytics_row.vix_value
    IN  IF vix_close = NoValue THEN "NORMAL"
        ELSE IF vix_close > ExtremeVix THEN "EXTREME"
        ELSE IF vix_close > HIGH_VIX THEN "HIGH"
        ELSE IF vix_close > LOW_VIX THEN "NORMAL"
        ELSE "LOW"

-----------------------------------------------------------------------------
(* comprehensive_analytics_engine.py *)

INDEX_TOKENS == {"BANKNIFTY", "NIFTY", "FINNIFTY"}
STOCK_TOKENS == {"HDFCBANK"}
NBFC_TOKENS == {"BAJFINANCE"}
PROCESSING_TOKENS == INDEX_TOKENS \cup STOCK_TOKENS \cup NBFC_TOKENS

\* the volatility index, which the feed stores and the candle builder folds
\* like any instrument
VIX_TOKEN == "INDIA_VIX"

\* analyze_vix: the state of the module-level current_vix
analyze_vix ==
    IF current_vix < 12 THEN "LOW"
    ELSE IF current_vix < 15 THEN "NORMAL"
    ELSE IF current_vix < 18 THEN "HIGH"
    ELSE "EXTREME"

\* SECTORS, one member per sector
SECTORS == { [sector_name |-> "BANKING", token_list |-> {"HDFCBANK"}],
             [sector_name |-> "NBFC", token_list |-> NBFC_TOKENS] }

\* What calculate_all_indicators hands to the INSERT besides the candle's own
\* columns.  The indicator bank works on deques of up to 500 candles; only
\* its summary is kept: the regime, the number of active signals and the
\* share of bullish and of bearish ones.
Outcome(regime, active, bullish, bearish) ==
    [market_regime |-> regime, total_active |-> active,
     bullish_percentage |-> bullish, bearish_percentage |-> bearish]

\* the summaries of the whole-pipeline specification: a market trending up
FeedOutcomes == { Outcome("TRENDING_UP", 10, 70, 30) }

\* the primary keys of minute_analytics, sector_analytics, market_direction
AnalyticsPK == {"time_minute", "instrument_token"}
SectorPK == {"time_minute", "sector_name"}
MarketPK == {"time_minute"}

\* SELECT COALESCE(MAX(time_minute), '2000-01-01 00:00') FROM minute_analytics
AnalyticsWatermark(table) ==
    IF Rows(table) = {} THEN NoMinute
    ELSE CHOOSE m \in {r.time_minute : r \in Rows(table)} :
            \A r \in Rows(table) : r.time_minute <= m

\* Python's "value or default" on a number that is not None
OrDefault(value, default) == IF value = 0 THEN default ELSE value

\* FUTURE_TOKENS
FUTURE_TOKENS == {"BANKNIFTY", "NIFTY"}

\* the oi_category the loop of process_latest_candles reads for a candle:
\* that of the futures_oi_category_1m row of (token, time_str) as the table
\* stands, "NA" without a row and for a token that is no future
ReadOICategory(token, time_str) ==
    LET oi_row == {o \in Rows(futures_oi_category_1m) :
                      o.instrument_token = token /\ o.time_minute = time_str}
    IN  IF token \in FUTURE_TOKENS /\ oi_row # {}
        THEN (CHOOSE o \in oi_row : TRUE).oi_category
        ELSE "NA"

\* the minute_analytics row built from a candle row ("x or 1.0" on the ratios)
AnalyticsRow(candle, outcome) ==
    [time_minute |-> candle.time_minute,
     instrument_token |-> candle.instrument_token,
     oi_category |-> ReadOICategory(candle.instrument_token, candle.time_minute),
     bid_ask_ratio |-> OrDefault(candle.bid_ask_ratio, 10000),
     order_imbalance |-> OrDefault(candle.order_imbalance, 0),
     bid_ask_bias |-> candle.bid_ask_bias,
     weighted_bid_ask_ratio |-> IF candle.weighted_bid_ask_ratio = 0 THEN 10000
                                ELSE candle.weighted_bid_ask_ratio,
     weighted_bias |-> candle.weighted_bias,
     vix_value |-> current_vix,
     vix_state |-> analyze_vix]
    @@ outcome

\* the sector_analytics rows calculate_sector_analysis writes for one minute
calculate_sector_analysis(table, time_str) ==
    { [time_minute |-> time_str,
       sector_name |-> sec.sector_name,
       signal |-> LET active == {r \in Rows(table) :
                                    /\ r.time_minute = time_str
                                    /\ r.instrument_token \in sec.token_list
                                    /\ r.total_active > 0}
                      buy_total == SumOver([r \in active |-> r.bullish_percentage])
                      sell_total == SumOver([r \in active |-> r.bearish_percentage])
                      active_count == Cardinality(active)
                  IN  IF buy_total > 60 * active_count THEN "BUY"
                      ELSE IF sell_total > 60 * active_count THEN "SELL"
                      ELSE "NEUTRAL"] :
      sec \in {x \in SECTORS :
                 \E r \in Rows(table) : /\ r.time_minute = time_str
                                        /\ r.instrument_token \in x.token_list
                                        /\ r.total_active > 0} }

\* a variant of the label that takes the buy side from 35 on
direction_label_low(overall_buy, overall_sell, n) ==
    IF overall_buy > 650 * n THEN "STRONG_BUY"
    ELSE IF overall_buy > 350 * n THEN "BUY"
    ELSE IF overall_sell > 650 * n THEN "STRONG_SELL"
    ELSE IF overall_sell > 550 * n THEN "SELL"
    ELSE "NEUTRAL"

\* the chained conditional that labels the minute, the buy side first; the
\* two sums are given times 10 * n
direction_label(overall_buy, overall_sell, n) ==
    IF overall_buy > 650 * n THEN "STRONG_BUY"
    ELSE IF overall_buy > 550 * n THEN "BUY"
    ELSE IF overall_sell > 650 * n THEN "STRONG_SELL"
    ELSE IF overall_sell > 550 * n THEN "SELL"
    ELSE "NEUTRAL"

\* the market_direction row calculate_market_direction writes for one minute;
\* the weighted sums are kept times 10 * max(top10_count, 1)
calculate_market_direction(table, time_str) ==
    LET at == {r \in Rows(table) : r.time_minute = time_str}
        Buy(tok) == SumOver([r \in {x \in at : x.instrument_token = tok}
                                |-> r.bullish_percentage])
        Sell(tok) == SumOver([r \in {x \in at : x.instrument_token = tok}
                                 |-> r.bearish_percentage])
        top10 == {r \in at : r.instrument_token \in STOCK_TOKENS /\ r.total_active > 0}
        top10_buy == SumOver([r \in top10 |-> r.bullish_percentage])
        top10_sell == SumOver([r \in top10 |-> r.bearish_percentage])
        n == IF top10 = {} THEN 1 ELSE Cardinality(top10)
        overall_buy == n * (3 * Buy("NIFTY") + 4 * Buy("BANKNIFTY") + Buy("FINNIFTY"))
                         + 2 * top10_buy
        overall_sell == n * (3 * Sell("NIFTY") + 4 * Sell("BANKNIFTY") + Sell("FINNIFTY"))
                          + 2 * top10_sell
    IN  [time_minute |-> time_str,
         overall_buy |-> Ratio(overall_buy, 10 * n),
         overall_sell |-> Ratio(overall_sell, 10 * n),
         direction |-> direction_label(overall_buy, overall_sell, n)]

\* a variant of the candle query without its upper bound on the minute
NewCandleMinutesUnbounded(last_time, current_minute) ==
    {c.time_minute : c \in {r \in Rows(candles) : r.time_minute > last_time}}

\* SELECT DISTINCT time_minute FROM minute_candles
\* WHERE time_minute > last_time AND time_minute < current_minute
NewCandleMinutes(last_time, current_minute) ==
    {c.time_minute : c \in {r \in Rows(candles) :
        r.time_minute > last_time /\ r.time_minute < current_minute}}

\* process_latest_candles: every candle minute after the analytics watermark
\* and before the current minute, oldest first; each minute's rows, commit,
\* then the two rollups
process_latest_candles(outcomes) ==
    LET current_minute == now
        last_time == AnalyticsWatermark(analytics)
        time_rows == NewCandleMinutes(last_time, current_minute)
        todo == {c \in Rows(candles) : /\ c.time_minute \in time_rows
                                       /\ c.instrument_token # VIX_TOKEN
                                       /\ c.instrument_token \in PROCESSING_TOKENS}
    IN  /\ time_rows # {}
        /\ \E pick \in [{CandleKey(c) : c \in todo} -> outcomes] :
              \E written \in {UpsertAll(analytics,
                                  {AnalyticsRow(c, pick[CandleKey(c)]) : c \in todo},
                                  AnalyticsPK)} :
                  /\ analytics' = written
                  /\ sector_analytics' =
                        UpsertAll(sector_analytics,
                                  UNION {calculate_sector_analysis(written, m) :
                                            m \in time_rows},
                                  SectorPK)
                  /\ market_direction' =
                        UpsertAll(market_direction,
                                  {calculate_market_direction(written, m) : m \in time_rows},
                                  MarketPK)
        /\ UNCHANGED <<feedVars, oiVars, candleVars, candles_1m, candles_5m, executed, faults,
                       main_loop, failed_cycles,
                       alertVars, call>>

-----------------------------------------------------------------------------
(* alert_engine_pro.py : generate_alert, save_alert, process_alerts *)

SymbolSet == {Symbols[i] : i \in DOMAIN Symbols}

\* what get_oi_category can return: a category of futures_oi_category_1m, or
\* "NA" when the OI classifier has no row for the minute (or the read failed)
OIReads == OICategories \cup {"NA"}

NoContext == [none |-> TRUE]

generate_alert(symbol, time_minute, oi_category) ==
    LET found == {r \in Rows(analytics) :
                     r.instrument_token = symbol /\ r.time_minute = time_minute}
    IN
    IF found = {} THEN NoContext
    ELSE
    LET analytics_row == CHOOSE r \in found : TRUE
        depth_bias == get_depth_bias_from_analytics(analytics_row)
        banking == {r \in Rows(sector_analytics) :
                       r.time_minute = time_minute /\ r.sector_name = "Banking"}
        banking_signal == IF banking = {} THEN "NEUTRAL"
                          ELSE (CHOOSE r \in banking : TRUE).signal
        sector_bias == normalize_sector_signal(banking_signal)
        market_dir == {r \in Rows(market_direction) : r.time_minute = time_minute}
        index_bias == IF market_dir = {} THEN "MIXED"
                      ELSE (CHOOSE r \in market_dir : TRUE).direction
        regime == detect_regime(analytics_row)
        vix_state == detect_vix_state(analytics_row)
        confirmations == check_multi_confirmation(oi_category, depth_bias,
                                                  sector_bias, index_bias, regime)
        confidence == calculate_confidence(oi_category, depth_bias, sector_bias,
                                           index_bias, regime, vix_state,
                                           analytics_row.weighted_bid_ask_ratio)
        alert_quality == grade_alert_quality(confidence)
        action == decide_action(oi_category, depth_bias, sector_bias, index_bias,
                                regime, vix_state)
    IN  IF Len(confirmations) < 2 THEN NoContext
        ELSE IF confidence < MIN_CONFIDENCE THEN NoContext
        ELSE IF alert_quality = "SKIP" THEN NoContext
        ELSE IF action \in {"NO_TRADE", "WAIT"} THEN NoContext
        ELSE [time |-> time_minute,
              symbol |-> symbol,
              future_oi |-> oi_category,
              depth_bias |-> depth_bias,
              index_bias |-> index_bias,
              sector_bias |-> sector_bias,
              regime |-> regime,
              vix_state |-> vix_state,
              confidence |-> confidence,
              action |-> action,
              alert_type |-> classify_alert_type(oi_category, depth_bias, regime),
              alert_quality |-> alert_quality]

\* the alerts_final row save_alert inserts (a plain INSERT, id autoincrement)
AlertRow(context) ==
    [time |-> context.time,
     symbol |-> context.symbol,
     future_oi_category |-> context.future_oi,
     depth_bias |-> context.depth_bias,
     index_bias |-> context.index_bias,
     sector_bias |-> context.sector_bias,
     regime |-> context.regime,
     vix_state |-> context.vix_state,
     confidence |-> context.confidence,
     recommended_action |-> context.action,
     alert_quality |-> context.alert_quality]

save_alert(table, context) == Append(table, AlertRow(context))

\* a variant in which a failed write loses the stored value
set_last_processed_time_lossy(persisted, time_str, ok) ==
    IF ok THEN time_str ELSE NoMinute

\* set_last_processed_time: INSERT OR REPLACE, the exception swallowed
set_last_processed_time(persisted, time_str, ok) ==
    IF ok THEN time_str ELSE persisted

\* one pass of the "for symbol in ..." loop of process_alerts over the
\* engine's memory and the alert table
\* a variant that forwards every evaluated alert, saved or not, of any grade
ShouldForwardAny(saved, alert_quality) == TRUE

\* "if save_alert(conn, context): ... if context.alert_quality in ['A+', 'A']"
ShouldForward(saved, alert_quality) == saved /\ alert_quality \in {"A+", "A"}

\* send_telegram: one sendMessage request; a failure is printed and swallowed
send_telegram(outbox, context, ok) ==
    Append(outbox, [time |-> context.time, symbol |-> context.symbol,
                    alert_quality |-> context.alert_quality, delivered |-> ok])

SymbolStepOn(st, context, symbol, latest_time, save_ok, send_ok) ==
    IF context = NoContext THEN st
    ELSE
    LET conf == check_signal_confirmation(st.pending, symbol, context.action, latest_time)
        cooled == is_in_cooldown(st.cooldown, symbol, context.action,
                                 latest_time, context.confidence)
        saved == conf.passed /\ ~cooled /\ save_ok
    IN  [pending |-> conf.pending,
         cooldown |-> IF saved /\ context.alert_quality \in {"A+", "A"}
                      THEN update_cooldown_state(st.cooldown, symbol, context.action,
                                                 latest_time, context.confidence)
                      ELSE st.cooldown,
         alerts |-> IF saved THEN save_alert(st.alerts, context) ELSE st.alerts,
         telegram |-> IF conf.passed /\ ~cooled
                         /\ ShouldForward(saved, context.alert_quality)
                      THEN send_telegram(st.telegram, context, send_ok)
                      ELSE st.telegram]

SymbolStep(st, symbol, latest_time, oi_category, save_ok, send_ok) ==
    SymbolStepOn(st, generate_alert(symbol, latest_time, oi_category),
                 symbol, latest_time, save_ok, send_ok)

SymbolLoop(st, latest_time, oi, failed, delivered) ==
    LET RECURSIVE Loop(_, _)
        Loop(s, i) ==
            IF i > Len(Symbols) THEN s
            ELSE Loop(SymbolStep(s, Symbols[i], latest_time,
                                 IF Symbols[i] \in DOMAIN oi THEN oi[Symbols[i]] ELSE "NA",
                                 Symbols[i] \notin failed,
                                 Symbols[i] \in delivered),
                      i + 1)
    IN  Loop(st, 1)

\* if last_processed and latest_time <= last_processed: return
AlreadyProcessed(last_processed, latest_time) ==
    last_processed # NoMinute /\ latest_time <= last_processed

\* get_last_processed_time: the stored value; None when the read raised
get_last_processed_time == last_processed_time

\* process_alerts.  write_ok: whether the alert_state write succeeded;
\* failed: the symbols whose INSERT raised; oi: the OI rows read;
\* delivered: the symbols whose sendMessage request succeeds (sends lists
\* the outcomes a request can have)
process_alerts(oi_reads, sends) ==
    \E write_ok \in BOOLEAN :
        LET latest_time == AnalyticsWatermark(analytics)
            present == {s \in SymbolSet :
                          \E r \in Rows(analytics) : /\ r.instrument_token = s
                                                     /\ r.time_minute = latest_time}
        IN  /\ latest_time # NoMinute
            /\ \E last_processed \in {get_last_processed_time, NoMinute} :
                  ~AlreadyProcessed(last_processed, latest_time)
            /\ \E oi \in [present -> oi_reads], failed \in SUBSET present,
                  delivered \in {d \in SUBSET present :
                                   \A x \in present : (x \in d) \in sends} :
                  \E st \in {SymbolLoop([pending |-> pending_signal_state,
                                         cooldown |-> alert_cooldown_state,
                                         alerts |-> alerts,
                                         telegram |-> telegram],
                                        latest_time, oi, failed, delivered)} :
                      /\ pending_signal_state' = st.pending
                      /\ alert_cooldown_state' = st.cooldown
                      /\ alerts' = st.alerts
                      /\ telegram' = st.telegram
            /\ last_processed_time' =
                  set_last_processed_time(last_processed_time, latest_time, write_ok)
            /\ UNCHANGED <<feedVars, oiVars, candleVars, analyticsVars, call>>

-----------------------------------------------------------------------------
(* Actions *)

\* one minute of wall-clock time passes
ClockTick(limit) ==
    /\ now < limit
    /\ now' = now + 1
    /\ UNCHANGED <<ticks, oiVars, candleVars, analyticsVars, alertVars, call>>

\* tick_json_saver.on_ticks: the tick is stamped with the wall clock and appended
on_ticks(tokens, payloads, limit) ==
    /\ Len(ticks) < limit
    /\ \E tok \in tokens, data \in payloads :
          ticks' = Append(ticks, [tok |-> tok, minute |-> now, data |-> data])
    /\ UNCHANGED <<now, oiVars, candleVars, analyticsVars, alertVars, call>>

\* process_new_ticks(last_completed_minute): fetch, group, aggregate, write,
\* commit.  lastRun is rewritten when the run is monitored.
process_new_ticks(kind, last_completed_minute, monitored) ==
    /\ \E rows \in {CycleRows(last_completed_minute)} :
          /\ candles' = WriteAll(candles, rows)
          /\ lastRun' =
                IF ~monitored THEN lastRun
                ELSE [kind |-> kind,
                      w |-> last_completed_minute,
                      n |-> Len(ticks),
                      settled |-> \A i \in DOMAIN ticks : ticks[i].minute < now,
                      rerun |-> IF \/ lastRun.kind = "none"
                                   \/ lastRun.w # last_completed_minute
                                   \/ lastRun.n # Len(ticks)
                                THEN "no"
                                ELSE IF candles' = candles THEN "same"
                                ELSE "changed",
                      rewrote |-> \E r \in rows : \E o \in Rows(candles) :
                                      CandleKey(o) = CandleKey(r)]
    /\ UNCHANGED <<feedVars, oiVars, txn, analyticsVars, alertVars, call>>

\* the alert engine is stopped and started again: its two dictionaries are
\* module globals and start empty; the tables of alerts_pro.db stay
AlertRestart ==
    /\ pending_signal_state' = NoState
    /\ alert_cooldown_state' = NoState
    /\ UNCHANGED <<feedVars, oiVars, candleVars, analyticsVars, alerts, telegram,
                   last_processed_time, call>>

NoCall == [fn |-> "none"]

\* main of the indicator engine before its first cycle
Started == [pc |-> "running", error_count |-> 0]

\* no transaction is open on minute_candles.db
NoTxn == [pc |-> "idle"]

ConfidenceInputs == {60, 70, 72, 79, 80, 85}

CooldownInputs ==
    {NoState} \cup
    { update_cooldown_state(NoState, "BANKNIFTY", a, t, c) :
        a \in {"BUY_CE", "BUY_PE"}, t \in 0..CallSpan, c \in ConfidenceInputs }

RatioInputs == {NoValue, 3000, 5000, 7000, 8000, 10000, 12000, 15000, 20000, 25000}

\* is_in_cooldown called on its own
CallIsInCooldown ==
    /\ call = NoCall
    /\ \E st \in CooldownInputs, action \in {"BUY_CE", "BUY_PE"},
          t \in 0..CallSpan, c \in ConfidenceInputs :
          call' = [fn |-> "is_in_cooldown",
                   state |-> st, action |-> action, time |-> t, confidence |-> c,
                   result |-> is_in_cooldown(st, "BANKNIFTY", action, t, c)]
    /\ UNCHANGED <<feedVars, oiVars, candleVars, analyticsVars, alertVars>>

PendingInputs ==
    {NoState} \cup
    { Put(NoState, "BANKNIFTY", [pending_action |-> a, pending_time |-> t]) :
        a \in TradeActions, t \in 0..CallSpan }

\* check_signal_confirmation called on its own
CallCheckSignalConfirmation ==
    /\ call = NoCall
    /\ \E pending \in PendingInputs, action \in TradeActions, t \in 0..CallSpan :
          LET out == check_signal_confirmation(pending, "BANKNIFTY", action, t)
          IN  call' = [fn |-> "check_signal_confirmation",
                       pending |-> pending, action |-> action, time |-> t,
                       result |-> out.passed, after |-> out.pending]
    /\ UNCHANGED <<feedVars, oiVars, candleVars, analyticsVars, alertVars>>

\* calculate_confidence called on its own
CallCalculateConfidence ==
    /\ call = NoCall
    /\ \E oi \in OIReads, depth \in DepthBiases,
          sector \in {"BULLISH", "BEARISH", "NEUTRAL", "MIXED"},
          index \in {"BULLISH", "BEARISH", "MIXED", "NEUTRAL"},
          regime \in AlertRegimes, vix \in VixStates, ratio \in RatioInputs :
          call' = [fn |-> "calculate_confidence",
                   oi_category |-> oi, depth_bias |-> depth, sector_bias |-> sector,
                   index_bias |-> index, regime |-> regime, vix_state |-> vix,
                   weighted_ratio |-> ratio,
                   result |-> calculate_confidence(oi, depth, sector, index,
                                                   regime, vix, ratio)]
    /\ UNCHANGED <<feedVars, oiVars, candleVars, analyticsVars, alertVars>>

\* The tick payloads handed to process_minute_candle on its own: books on
\* both sides of the two thresholds and on them, an empty ask side, an empty
\* book, a tick without a price, one without a volume, a volume that falls,
\* and a tick whose JSON does not parse
BucketPayloads ==
    { Payload(10, 5, <<100>>, <<50>>),
      Payload(12, 9, <<150>>, <<200>>),
      Payload(11, 7, <<120>>, <<100>>),
      Payload(9, 2, <<45>>, <<50>>),
      Payload(10, NoValue, <<5>>, << >>),
      Payload(NoValue, 4, << >>, << >>),
      Payload(13, 8, <<4, 0>>, <<1, 4>>),
      Malformed }

\* the buckets of 1..n ticks of one instrument and minute, in timestamp order
Buckets(n) ==
    UNION { [1..k -> {[tok |-> "BANKNIFTY", minute |-> 0, data |-> d] :
                        d \in BucketPayloads}] : k \in 1..n }

\* process_minute_candle called on its own
CallProcessMinuteCandle ==
    /\ call = NoCall
    /\ \E minute_ticks \in Buckets(BucketLen) :
          call' = [fn |-> "process_minute_candle",
                   minute_ticks |-> minute_ticks,
                   result |-> process_minute_candle(minute_ticks)]
    /\ UNCHANGED <<feedVars, oiVars, candleVars, analyticsVars, alertVars>>

-----------------------------------------------------------------------------
(* Specifications *)

Init ==
    /\ now = 0
    /\ ticks = << >>
    /\ candles = EmptyTable
    /\ lastRun = [kind |-> "none", w |-> NoMinute, n |-> 0, settled |-> FALSE,
                  rerun |-> "no", rewrote |-> FALSE]
    /\ analytics = EmptyTable
    /\ sector_analytics = EmptyTable
    /\ market_direction = EmptyTable
    /\ futures_oi_category_1m = EmptyTable
    /\ txn = NoTxn
    /\ candles_1m = NoState
    /\ candles_5m = NoState
    /\ faults = 0
    /\ main_loop = Started
    /\ failed_cycles = 0
    /\ executed = {}
    /\ alerts = << >>
    /\ telegram = << >>
    /\ last_processed_time = NoMinute
    /\ pending_signal_state = NoState
    /\ alert_cooldown_state = NoState
    /\ call = NoCall

(* SpecCandle: the tick store and the candle builder, every run monitored *)

CandleClock == ClockTick(MaxMinute)

CandleFeed == on_ticks(Tokens, TickPayloads, MaxTicks)

\* candle_builder_1m.main: the watermark is read from the output table
CandleBuilderMain ==
    process_new_ticks("main", get_last_completed_minute, TRUE)

\* process_new_ticks with another watermark: None, which main passes when the
\* MAX query raised OperationalError (a full scan), or the argument of the
\* latest call once more
ReplayTicks ==
    \E w \in {NoMinute, lastRun.w} :
        process_new_ticks("replay", w, TRUE)

CandleNext == CandleClock \/ CandleFeed \/ CandleBuilderMain \/ ReplayTicks

SpecCandle == Init /\ [][CandleNext]_vars

(* Spec: the four stages running side by side *)

Clock == ClockTick(Horizon)

Feed == on_ticks(FeedTokens, FeedPayloads, FeedLen)

CandleCycle == process_new_ticks("main", get_last_completed_minute, FALSE)

IndicatorCycle == process_latest_candles(FeedOutcomes)

AlertCycle == process_alerts({"LB", "NA"}, {TRUE})

Next == Clock \/ Feed \/ CandleCycle \/ IndicatorCycle \/ AlertCycle \/ AlertRestart

Spec == Init /\ [][Next]_vars

(* SpecConfirm: the symbol pass of process_alerts on one signal, evaluated
   at a minute and again at the next minute evaluated *)

\* the context generate_alert returns for a signal of BANKNIFTY
SignalContext(time_minute, action, confidence) ==
    [time |-> time_minute,
     symbol |-> "BANKNIFTY",
     future_oi |-> IF action \in {"BUY_CE", "SELL_PE_PREMIUM"} THEN "LB" ELSE "SB",
     depth_bias |-> IF action \in {"BUY_CE", "SELL_PE_PREMIUM"}
                    THEN "BUYER_DOMINANT" ELSE "SELLER_DOMINANT",
     index_bias |-> "MIXED",
     sector_bias |-> "NEUTRAL",
     regime |-> IF action = "BUY_CE" THEN "TRENDING_UP"
                ELSE IF action = "BUY_PE" THEN "TRENDING_DOWN" ELSE "RANGING",
     vix_state |-> "NORMAL",
     confidence |-> confidence,
     action |-> action,
     alert_type |-> classify_alert_type(IF action \in {"BUY_CE", "SELL_PE_PREMIUM"}
                                        THEN "LB" ELSE "SB",
                                        IF action \in {"BUY_CE", "SELL_PE_PREMIUM"}
                                        THEN "BUYER_DOMINANT" ELSE "SELLER_DOMINANT",
                                        IF action = "BUY_CE" THEN "TRENDING_UP"
                                        ELSE IF action = "BUY_PE" THEN "TRENDING_DOWN"
                                        ELSE "RANGING"),
     alert_quality |-> grade_alert_quality(confidence)]

\* the pending records and the cooldown records the pass starts from
ConfirmPending ==
    {NoState} \cup
    { Put(NoState, "BANKNIFTY", [pending_action |-> a, pending_time |-> t]) :
        a \in {"BUY_CE", "BUY_PE"}, t \in 0..CallSpan }

ConfirmCooldown ==
    {NoState} \cup
    { update_cooldown_state(NoState, "BANKNIFTY", "BUY_CE", t, 70) : t \in 0..CallSpan }

\* the loop body of process_alerts for BANKNIFTY at a minute, and again with
\* the same signal at the minute evaluated next (the same minute when the
\* watermark write failed)
CallSymbolStepTwice ==
    /\ call = NoCall
    /\ \E pending \in ConfirmPending, cooldown \in ConfirmCooldown,
          action \in {"BUY_CE", "BUY_PE"}, t \in 0..CallSpan, gap \in 0..3,
          save_ok \in BOOLEAN :
          LET before == [pending |-> pending, cooldown |-> cooldown,
                         alerts |-> << >>, telegram |-> << >>]
          IN  \E first \in {SymbolStepOn(before, SignalContext(t, action, 72),
                                          "BANKNIFTY", t, save_ok, TRUE)} :
                 call' = [fn |-> "SymbolStepTwice", action |-> action,
                          time |-> t, next_time |-> t + gap, save_ok |-> save_ok,
                          before |-> before, first |-> first,
                          second |-> SymbolStepOn(first, SignalContext(t + gap, action, 72),
                                                  "BANKNIFTY", t + gap, TRUE, TRUE)]
    /\ UNCHANGED <<feedVars, oiVars, candleVars, analyticsVars, alertVars>>

ConfirmNext == CallSymbolStepTwice

SpecConfirm == Init /\ [][ConfirmNext]_vars

\* decide_action called on its own
CallDecideAction ==
    /\ call = NoCall
    /\ \E oi \in OIReads, depth \in DepthBiases,
          sector \in {"BULLISH", "BEARISH", "NEUTRAL"},
          index \in {"BULLISH", "BEARISH", "MIXED", "NEUTRAL"},
          regime \in AlertRegimes, vix \in VixStates :
          call' = [fn |-> "decide_action",
                   oi_category |-> oi, depth_bias |-> depth, sector_bias |-> sector,
                   index_bias |-> index, regime |-> regime, vix_state |-> vix,
                   result |-> decide_action(oi, depth, sector, index, regime, vix)]
    /\ UNCHANGED <<feedVars, oiVars, candleVars, analyticsVars, alertVars>>

DecisionNext == CallDecideAction

SpecDecision == Init /\ [][DecisionNext]_vars

(* SpecCalls: the pure functions of the alert engine over their inputs *)

CallNext == CallIsInCooldown \/ CallCheckSignalConfirmation \/ CallCalculateConfidence

SpecCalls == Init /\ [][CallNext]_vars

\* process_minute_candle applied to one bucket
BucketNext == CallProcessMinuteCandle

SpecBucket == Init /\ [][BucketNext]_vars

-----------------------------------------------------------------------------
(* oi_category_builder_v2.py *)

\* The parsed tick_json as the OI builder reads it: lp and oi
OIPayload(lp, oi) == [ok |-> TRUE, lp |-> lp, oi |-> oi]

\* prices and open interest that rise, fall and stay, and a tick without oi
OIPayloads ==
    { OIPayload(1, 1), OIPayload(1, 2), OIPayload(2, 1), OIPayload(2, 2),
      OIPayload(2, NoValue) }

\* get_oi_category returned None
NoCategory == "None"

\* a variant that takes a change of zero for a rise
get_oi_category_lenient(price_change, oi_change) ==
    IF price_change >= 0 /\ oi_change >= 0 THEN "LB"
    ELSE IF price_change < 0 /\ oi_change >= 0 THEN "SB"
    ELSE IF price_change >= 0 /\ oi_change < 0 THEN "SC"
    ELSE "LU"

get_oi_category(price_change, oi_change) ==
    IF price_change = 0 \/ oi_change = 0 THEN NoCategory
    ELSE IF price_change > 0 /\ oi_change > 0 THEN "LB"
    ELSE IF price_change < 0 /\ oi_change > 0 THEN "SB"
    ELSE IF price_change > 0 /\ oi_change < 0 THEN "SC"
    ELSE IF price_change < 0 /\ oi_change < 0 THEN "LU"
    ELSE NoCategory

\* process_minute_data returned None
NoMetrics == [none |-> TRUE]

\* process_minute_data: the first and the last tick of the bucket
process_minute_data(minute_ticks) ==
    IF Len(minute_ticks) < 2 THEN NoMetrics
    ELSE
    LET first == minute_ticks[1].data
        last == minute_ticks[Len(minute_ticks)].data
    IN
    IF ~first.ok \/ ~last.ok THEN NoMetrics
    ELSE IF first.oi = NoValue \/ last.oi = NoValue THEN NoMetrics
    ELSE IF first.lp = NoValue \/ last.lp = NoValue THEN NoMetrics
    ELSE
    LET price_change == last.lp - first.lp
        oi_change == last.oi - first.oi
        category == get_oi_category(price_change, oi_change)
    IN  IF category = NoCategory THEN NoMetrics
        ELSE [price_start |-> first.lp, price_end |-> last.lp,
              oi_start |-> first.oi, oi_end |-> last.oi,
              price_change |-> price_change, oi_change |-> oi_change,
              oi_category |-> category]

\* PRIMARY KEY (instrument_token, time_minute) of futures_oi_category_1m
OIPK == {"instrument_token", "time_minute"}

\* SELECT MAX(time_minute) FROM futures_oi_category_1m
get_last_processed_minute ==
    IF Rows(futures_oi_category_1m) = {} THEN NoMinute
    ELSE CHOOSE m \in {r.time_minute : r \in Rows(futures_oi_category_1m)} :
            \A r \in Rows(futures_oi_category_1m) : r.time_minute <= m

\* the query of the OI builder: allowed futures, oi present, and
\* ts_ist > 'last_processed_minute:59'
OIFetchTicks(last_processed_minute) ==
    SelectSeq(ticks, LAMBDA t :
        /\ t.tok \in {"BANKNIFTY", "NIFTY"}
        /\ t.data.ok /\ t.data.oi # NoValue
        /\ (last_processed_minute = NoMinute \/ t.minute > last_processed_minute))

\* the rows one run of the OI builder writes
OICycleRows(last_processed_minute) ==
    LET fetched == OIFetchTicks(last_processed_minute)
        keys == {<<fetched[i].tok, fetched[i].minute>> : i \in DOMAIN fetched}
        built == { [instrument_token |-> k[1], time_minute |-> k[2]]
                       @@ process_minute_data(BucketTicks(fetched, k[1], k[2])) :
                   k \in keys }
    IN  {r \in built : "none" \notin DOMAIN r}

\* main of the OI builder: get_last_processed_minute, process_new_ticks
OIBuilderMain ==
    /\ \E rows \in {OICycleRows(get_last_processed_minute)} :
          futures_oi_category_1m' = UpsertAll(futures_oi_category_1m, rows, OIPK)
    /\ UNCHANGED <<feedVars, candleVars, analyticsVars, alertVars, call>>

OIClock == ClockTick(OIMinute)

OIFeed == on_ticks({"BANKNIFTY"}, OIPayloads, OITicks)

OINext == OIClock \/ OIFeed \/ OIBuilderMain

SpecOI == Init /\ [][OINext]_vars

-----------------------------------------------------------------------------
(* comprehensive_analytics_engine.py : the engine with its deques *)

\* deque(maxlen=200)
DequeMax == 200

\* calculate_all_indicators returns the defaults below this many candles
MinCandles == 20

\* calculate_roc(prices, 12)
RocPeriod == 12

\* candles_1m[symbol]: the candles appended, oldest first (empty when absent);
\* of a Candle its timestamp, open and close are kept
Deque(memory, symbol) == IF symbol \in DOMAIN memory THEN memory[symbol] ELSE << >>

\* candles_1m[symbol].append(candle) on a deque of at most DequeMax entries
AppendCandle(memory, symbol, candle) ==
    LET old == Deque(memory, symbol)
        kept == IF Len(old) >= DequeMax THEN Tail(old) ELSE old
    IN  Put(memory, symbol, Append(kept, [timestamp |-> candle.time_minute,
                                          open |-> candle.open,
                                          close |-> candle.close]))

\* calculate_roc: ((current - past) / past) * 100, as an exact ratio
calculate_roc(prices, period) ==
    IF Len(prices) < period + 1 THEN Ratio(0, 1)
    ELSE LET current == prices[Len(prices)]
             past == prices[Len(prices) - period]
         IN  IF past = 0 THEN Ratio(0, 1) ELSE Ratio(100 * (current - past), past)

\* BUY_THRESHOLD = 1.5 and SELL_THRESHOLD = 0.67 in ten-thousandths, and
\* ORDER_IMBALANCE_THRESHOLD
BUY_THRESHOLD == 15000
SELL_THRESHOLD == 6700
ORDER_IMBALANCE_THRESHOLD == 100

\* analyze_depth_bias of the indicator engine
analyze_depth_bias(bid_ask_ratio, order_imbalance) ==
    IF bid_ask_ratio >= BUY_THRESHOLD /\ order_imbalance >= ORDER_IMBALANCE_THRESHOLD
    THEN "BUYER_DOMINANT"
    ELSE IF /\ bid_ask_ratio <= SELL_THRESHOLD
            /\ order_imbalance <= -ORDER_IMBALANCE_THRESHOLD
    THEN "SELLER_DOMINANT"
    ELSE "NEUTRAL"

\* SIGNAL_KEYS: the 21 signals summed into the counts
SIGNAL_KEYS ==
    { "ema_9", "ema_21", "ema_50", "ema_200", "macd", "adx_trend", "kalman",
      "rsi", "stoch", "cci", "mfi", "roc", "bb", "atr_trend",
      "vwap", "volume_trend", "obv", "oi", "depth", "pattern", "regime" }

\* the counts of a result whose signals were never summed: the defaults
NoCounts == [bullish_count |-> 0, bearish_count |-> 0, neutral_count |-> 0]

\* bullish_count, bearish_count and neutral_count of the signals
SignalCounts(signals) ==
    [bullish_count |-> Cardinality({k \in SIGNAL_KEYS : signals[k] = 1}),
     bearish_count |-> Cardinality({k \in SIGNAL_KEYS : signals[k] = -1}),
     neutral_count |-> Cardinality({k \in SIGNAL_KEYS : signals[k] = 0})]

\* calculate_all_indicators, of which the rate of change and the depth
\* signal are modelled (every other signal stays 0): the defaults under
\* MinCandles candles, else roc_value, roc_signal, depth_signal and the
\* aggregates over SIGNAL_KEYS.  With fewer than 20 five-minute candles
\* detect_regime gives RANGING.
calculate_all_indicators(candles_list, candle_data) ==
    IF Len(candles_list) < MinCandles
    THEN [roc_value |-> 0, roc_signal |-> 0, depth_signal |-> 0]
         @@ NoCounts @@ Outcome("RANGING", 0, 0, 0)
    ELSE LET closes == [i \in DOMAIN candles_list |-> candles_list[i].close]
             roc == calculate_roc(closes, RocPeriod)
             roc_signal == IF roc.n > 0 THEN 1 ELSE -1
             depth_bias == analyze_depth_bias(candle_data.bid_ask_ratio,
                                              candle_data.order_imbalance)
             depth_signal == IF depth_bias = "BUYER_DOMINANT" THEN 1
                             ELSE IF depth_bias = "SELLER_DOMINANT" THEN -1 ELSE 0
             signals == [k \in SIGNAL_KEYS |->
                            IF k = "roc" THEN roc_signal
                            ELSE IF k = "depth" THEN depth_signal ELSE 0]
             counts == SignalCounts(signals)
             total_active == counts.bullish_count + counts.bearish_count
         IN  [roc_value |-> Round4(roc), roc_signal |-> roc_signal,
              depth_signal |-> depth_signal] @@ counts
             @@ Outcome("RANGING", total_active,
                        IF total_active > 0
                        THEN (counts.bullish_count * 100) \div total_active ELSE 0,
                        IF total_active > 0
                        THEN (counts.bearish_count * 100) \div total_active ELSE 0)

\* maxlen of the candles_5m deques
FiveMax == 100

\* the 5-minute candle folded from the last five candles of candles_1m[symbol]
\* once it holds five, appended unless the window's latest candle already has
\* the minute's timestamp.  Of the candle the timestamp, the open and the
\* close are kept, and the places in candles_1m of the first and the last
\* one-minute candle folded.
FoldFive(memory_5m, symbol, candles_list, time_str) ==
    IF Len(candles_list) < 5 THEN memory_5m
    ELSE LET last_5 == SubSeq(candles_list, Len(candles_list) - 4, Len(candles_list))
             candle_5m == [timestamp |-> time_str,
                           open |-> last_5[1].open, close |-> last_5[5].close,
                           first |-> Len(candles_list) - 4,
                           last |-> Len(candles_list)]
             old == Deque(memory_5m, symbol)
             kept == IF Len(old) >= FiveMax THEN Tail(old) ELSE old
         IN  IF old = << >> \/ old[Len(old)].timestamp # time_str
             THEN Put(memory_5m, symbol, Append(kept, candle_5m))
             ELSE memory_5m

\* the engine's memory, table and INSERT history after the pass of the
\* per-minute loop for one candle: append to the deque, compute, INSERT.
\* The row is visible only when the minute's commit succeeds.
MinuteStep(st, candle, committed) ==
    LET symbol == candle.instrument_token
        memory == AppendCandle(st.memory, symbol, candle)
        candle_data == [bid_ask_ratio |-> OrDefault(candle.bid_ask_ratio, 10000),
                        order_imbalance |-> OrDefault(candle.order_imbalance, 0)]
        row == AnalyticsRow(candle,
                            calculate_all_indicators(Deque(memory, symbol), candle_data))
    IN  [memory |-> memory,
         memory_5m |-> FoldFive(st.memory_5m, symbol, Deque(memory, symbol),
                                candle.time_minute),
         table |-> IF committed THEN Upsert(st.table, row, AnalyticsPK) ELSE st.table,
         executed |-> st.executed \cup {row}]

\* the "for time_row in time_rows" loop, oldest minute first, up to the minute
\* whose commit raises (fail_at; NoMinute when none does).  The passes over
\* the minutes lo..hi are taken by halves, those of the lower half first, and
\* each half starts from the state the passes before it left.
MinuteLoop(st, time_rows, fail_at) ==
    LET todo == {m \in time_rows : fail_at = NoMinute \/ m <= fail_at}
        RECURSIVE Loop(_, _, _)
        Loop(s, lo, hi) ==
            IF todo \cap (lo..hi) = {} THEN s
            ELSE IF lo = hi
            THEN MinuteStep(s, CHOOSE c \in Rows(candles) :
                                   /\ c.time_minute = lo
                                   /\ c.instrument_token \in PROCESSING_TOKENS,
                            lo # fail_at)
            ELSE CHOOSE end \in { Loop(lower, (lo + hi) \div 2 + 1, hi) :
                                     lower \in {Loop(s, lo, (lo + hi) \div 2)} } : TRUE
    IN  IF todo = {} THEN st
        ELSE Loop(st, CHOOSE x \in todo : \A y \in todo : x <= y,
                      CHOOSE x \in todo : \A y \in todo : x >= y)

\* process_latest_candles of the running engine.  A commit that raises
\* (database is locked) ends the cycle in the except clause: the minute's
\* INSERT is rolled back when the connection closes, the deques keep what
\* was appended.
process_latest_candles_run ==
    LET current_minute == now
        last_time == AnalyticsWatermark(analytics)
        time_rows == NewCandleMinutes(last_time, current_minute)
    IN  /\ time_rows # {}
        /\ \E fail_at \in time_rows \cup {NoMinute} :
              /\ fail_at # NoMinute => faults < RedoCap
              /\ faults' = IF fail_at = NoMinute THEN faults ELSE faults + 1
              /\ \E st \in {MinuteLoop([memory |-> candles_1m, memory_5m |-> candles_5m,
                                         table |-> analytics, executed |-> executed],
                                        time_rows, fail_at)} :
                    /\ candles_1m' = st.memory
                    /\ candles_5m' = st.memory_5m
                    /\ executed' = st.executed
                    /\ analytics' = st.table
                    /\ sector_analytics' =
                          UpsertAll(sector_analytics,
                                    UNION {calculate_sector_analysis(st.table, m) :
                                             m \in {x \in time_rows : x # fail_at
                                                      /\ (fail_at = NoMinute \/ x < fail_at)}},
                                    SectorPK)
                    /\ market_direction' =
                          UpsertAll(market_direction,
                                    {calculate_market_direction(st.table, m) :
                                       m \in {x \in time_rows : x # fail_at
                                                /\ (fail_at = NoMinute \/ x < fail_at)}},
                                    MarketPK)
        /\ UNCHANGED <<feedVars, oiVars, candleVars, alertVars, call>>

\* the cycle on its own, outside main's error accounting
IndicatorCycleRun ==
    process_latest_candles_run /\ UNCHANGED <<main_loop, failed_cycles>>

\* the engine is stopped and started again: its deques start empty
IndicatorRestart ==
    /\ faults < RedoCap
    /\ faults' = faults + 1
    /\ candles_1m' = NoState
    /\ candles_5m' = NoState
    /\ UNCHANGED <<feedVars, oiVars, candleVars, analytics, sector_analytics,
                   market_direction, executed, main_loop, failed_cycles,
                   alertVars, call>>

\* max_errors of main
max_errors == 10

\* One pass of main's "while True" loop, by its outcome.  get_db_connections
\* is called before the try of process_latest_candles, so what it raises
\* reaches main's except clause; what the queries and the commit raise is
\* caught inside process_latest_candles, which then returns 0 like a cycle
\* that found no new minute.  (consecutive_empty only drives a log line and
\* is left out.)

\* sqlite3.connect raises: error_count += 1, break at max_errors
MainConnectFails ==
    /\ main_loop.pc = "running"
    /\ failed_cycles < BudgetCap
    /\ failed_cycles' = failed_cycles + 1
    /\ main_loop' = [error_count |-> main_loop.error_count + 1,
                     pc |-> IF main_loop.error_count + 1 >= max_errors
                            THEN "stopped" ELSE "running"]
    /\ UNCHANGED <<analytics, sector_analytics, market_direction,
                   candles_1m, candles_5m, executed, faults>>
    /\ UNCHANGED <<feedVars, oiVars, candleVars, alertVars, call>>

\* the watermark query or the candle query raises: return 0
MainQueryFails ==
    /\ main_loop.pc = "running"
    /\ failed_cycles < BudgetCap
    /\ failed_cycles' = failed_cycles + 1
    /\ UNCHANGED <<analytics, sector_analytics, market_direction,
                   candles_1m, candles_5m, executed, faults, main_loop>>
    /\ UNCHANGED <<feedVars, oiVars, candleVars, alertVars, call>>

\* "if not time_rows: return 0"
MainNoRows ==
    /\ main_loop.pc = "running"
    /\ NewCandleMinutes(AnalyticsWatermark(analytics), now) = {}
    /\ failed_cycles' = 0
    /\ UNCHANGED <<analytics, sector_analytics, market_direction,
                   candles_1m, candles_5m, executed, faults, main_loop>>
    /\ UNCHANGED <<feedVars, oiVars, candleVars, alertVars, call>>

\* the per-minute loop: processed > 0 resets error_count; a commit that
\* raised makes the cycle return 0
MainCycle ==
    /\ main_loop.pc = "running"
    /\ process_latest_candles_run
    /\ \/ /\ faults' = faults
          /\ failed_cycles' = 0
          /\ main_loop' = [main_loop EXCEPT !.error_count = 0]
       \/ /\ faults' # faults
          /\ failed_cycles < BudgetCap
          /\ failed_cycles' = failed_cycles + 1
          /\ main_loop' = main_loop

\* the price of the stream's candle of minute m
StreamClose(m) == 10 + ((2 * m) % 3)

\* one tick a minute for StreamLen minutes, and the candles built from them
\* the book of the stream's tick of minute m: every fourth minute the bid
\* side is empty against 100 on the ask side
StreamBid(m) == IF m % 4 = 3 THEN << >> ELSE <<3>>

StreamAsk(m) == IF m % 4 = 3 THEN <<100>> ELSE <<2>>

StreamTicks ==
    [i \in 1..StreamLen |->
        [tok |-> "BANKNIFTY", minute |-> i - 1,
         data |-> Payload(StreamClose(i - 1), i, StreamBid(i - 1), StreamAsk(i - 1))]]

StreamCandles ==
    WriteAll(EmptyTable,
             { [instrument_token |-> "BANKNIFTY", time_minute |-> i - 1]
                   @@ process_minute_candle(<<StreamTicks[i]>>) : i \in 1..StreamLen })

-----------------------------------------------------------------------------
(* candle_builder_1m.py : one cycle of main, statement by statement *)

\* the ticks stored in the step-wise specification: a priced tick and one
\* without a price, stamped by the wall clock or with an unparsable ts_ist
CyclePayloads ==
    { Payload(1, 1, <<3>>, <<2>>),
      Payload(NoValue, 2, << >>, << >>) }

CycleFeed ==
    /\ Len(ticks) < CycleTicks
    /\ \E tok \in Tokens, data \in CyclePayloads, stamp \in {now, BadStamp} :
          ticks' = Append(ticks, [tok |-> tok, minute |-> stamp, data |-> data])
    /\ UNCHANGED <<now, oiVars, candleVars, analyticsVars, alertVars, call>>

\* a variant of the INSERT in which the connection commits every statement
ExecuteInsertAutocommit(db, row) ==
    [committed |-> UpsertCandle(db.working, row),
     working |-> UpsertCandle(db.working, row)]

\* output_cursor.execute(INSERT OR REPLACE ...): the row is written inside
\* the connection's open transaction; the committed table is untouched
ExecuteInsert(db, row) ==
    [committed |-> db.committed,
     working |-> UpsertCandle(db.working, row)]

\* main up to the write loop: get_last_completed_minute, the source query
\* and the grouping loop.  A failed read and an unparsable ts_ist both raise
\* before the output connection is opened.
CycleStart ==
    /\ txn.pc # "writing"
    /\ \E read_ok \in BOOLEAN :
          LET last == get_last_completed_minute
              fetched == FetchTicks(last)
              bad == \E i \in DOMAIN fetched : fetched[i].minute = BadStamp
          IN  txn' = IF ~read_ok
                     THEN [pc |-> "failed", at |-> "read", before |-> candles,
                           written |-> 0]
                     ELSE IF bad
                     THEN [pc |-> "failed", at |-> "timestamp", before |-> candles,
                           written |-> 0]
                     ELSE [pc |-> "writing", before |-> candles,
                           rows |-> CycleRows(last), todo |-> CycleRows(last),
                           working |-> candles]
    /\ UNCHANGED <<feedVars, oiVars, candles, lastRun, analyticsVars, alertVars, call>>

\* one pass of the write loop: the INSERT succeeds, or raises; the exception
\* leaves process_new_ticks and the process, and the connection is dropped
\* without a commit
CycleWrite ==
    /\ txn.pc = "writing"
    /\ txn.todo # {}
    /\ \E row \in txn.todo, ok \in BOOLEAN :
          IF ok
          THEN \E db \in {ExecuteInsert([committed |-> candles,
                                         working |-> txn.working], row)} :
                  /\ candles' = db.committed
                  /\ txn' = [txn EXCEPT !.working = db.working,
                                        !.todo = txn.todo \ {row}]
          ELSE /\ candles' = candles
               /\ txn' = [pc |-> "failed", at |-> "write", before |-> txn.before,
                          written |-> Cardinality(txn.rows) - Cardinality(txn.todo)]
    /\ UNCHANGED <<feedVars, oiVars, lastRun, analyticsVars, alertVars, call>>

\* output_conn.commit(): the rows of the batch become visible together
CycleCommit ==
    /\ txn.pc = "writing"
    /\ txn.todo = {}
    /\ candles' = txn.working
    /\ txn' = [pc |-> "committed", before |-> txn.before, rows |-> txn.rows]
    /\ UNCHANGED <<feedVars, oiVars, lastRun, analyticsVars, alertVars, call>>

CycleClock == ClockTick(CycleMinute)

CycleNext == CycleClock \/ CycleFeed \/ CycleStart \/ CycleWrite \/ CycleCommit

SpecCycle == Init /\ [][CycleNext]_vars

\* the indicator engine starts on StreamLen closed minutes of candles
InitIndicator ==
    /\ now = StreamLen
    /\ ticks = StreamTicks
    /\ candles = StreamCandles
    /\ lastRun = [kind |-> "none", w |-> NoMinute, n |-> 0, settled |-> FALSE,
                  rerun |-> "no", rewrote |-> FALSE]
    /\ analytics = EmptyTable
    /\ sector_analytics = EmptyTable
    /\ market_direction = EmptyTable
    /\ futures_oi_category_1m = EmptyTable
    /\ txn = NoTxn
    /\ candles_1m = NoState
    /\ candles_5m = NoState
    /\ faults = 0
    /\ main_loop = Started
    /\ failed_cycles = 0
    /\ executed = {}
    /\ alerts = << >>
    /\ telegram = << >>
    /\ last_processed_time = NoMinute
    /\ pending_signal_state = NoState
    /\ alert_cooldown_state = NoState
    /\ call = NoCall

IndicatorNext == IndicatorCycleRun \/ IndicatorRestart

(* SpecBudget: main of the indicator engine on the same candles *)

BudgetNext == MainConnectFails \/ MainQueryFails \/ MainNoRows \/ MainCycle

SpecBudget == InitIndicator /\ [][BudgetNext]_vars

(* SpecWindow: the feed, the candle builder and the running indicator engine *)

WindowNext == Clock \/ Feed \/ CandleCycle \/ IndicatorCycleRun

SpecWindow == Init /\ [][WindowNext]_vars

SpecIndicator == InitIndicator /\ [][IndicatorNext]_vars

(* SpecGate: the pipeline over the regimes and books the gate tells apart,
   with one symbol pass and one decide_action call recorded *)

\* a strongly buyer-side book (weighted ratio 2.5) and a balanced one
GatePayloads ==
    { Payload(1, 1, <<5>>, <<2>>),
      Payload(1, 1, <<2>>, <<2>>) }

GateOutcomes ==
    { Outcome("TRENDING_UP", 10, 70, 30),
      Outcome("RANGING", 10, 70, 30),
      Outcome("HIGH_VOLATILITY", 10, 30, 70) }

\* process_latest_candles where calculate_market_direction may raise for some
\* of the minutes (lost): its except clause prints the error and the minute
\* is left without a market_direction row
process_latest_candles_rollup(outcomes) ==
    LET current_minute == now
        last_time == AnalyticsWatermark(analytics)
        time_rows == NewCandleMinutes(last_time, current_minute)
        todo == {c \in Rows(candles) : /\ c.time_minute \in time_rows
                                       /\ c.instrument_token \in PROCESSING_TOKENS}
    IN  /\ time_rows # {}
        /\ \E pick \in [{CandleKey(c) : c \in todo} -> outcomes], lost \in SUBSET time_rows :
              \E written \in {UpsertAll(analytics,
                                  {AnalyticsRow(c, pick[CandleKey(c)]) : c \in todo},
                                  AnalyticsPK)} :
                  /\ analytics' = written
                  /\ sector_analytics' =
                        UpsertAll(sector_analytics,
                                  UNION {calculate_sector_analysis(written, m) :
                                            m \in time_rows},
                                  SectorPK)
                  /\ market_direction' =
                        UpsertAll(market_direction,
                                  {calculate_market_direction(written, m) :
                                     m \in time_rows \ lost},
                                  MarketPK)
        /\ UNCHANGED <<feedVars, oiVars, candleVars, candles_1m, candles_5m, executed, faults,
                       main_loop, failed_cycles,
                       alertVars, call>>

\* what generate_alert reads for (symbol, time_minute) before the gate
AlertInputs(symbol, time_minute) ==
    LET analytics_row == CHOOSE r \in Rows(analytics) :
                            r.instrument_token = symbol /\ r.time_minute = time_minute
        banking == {r \in Rows(sector_analytics) :
                       r.time_minute = time_minute /\ r.sector_name = "Banking"}
        market_dir == {r \in Rows(market_direction) : r.time_minute = time_minute}
    IN  [depth_bias |-> get_depth_bias_from_analytics(analytics_row),
         sector_bias |-> normalize_sector_signal(IF banking = {} THEN "NEUTRAL"
                                                 ELSE (CHOOSE r \in banking : TRUE).signal),
         index_bias |-> IF market_dir = {} THEN "MIXED"
                        ELSE (CHOOSE r \in market_dir : TRUE).direction,
         regime |-> detect_regime(analytics_row),
         vix_state |-> detect_vix_state(analytics_row)]

\* one pass of the symbol loop of process_alerts on the engine as it
\* stands, with what generate_alert read and what decide_action answers
CallSymbolStep ==
    /\ call = NoCall
    /\ \E symbol \in FeedTokens, oi \in OIReads, save_ok \in BOOLEAN :
          LET latest_time == AnalyticsWatermark(analytics)
              before == [pending |-> pending_signal_state,
                         cooldown |-> alert_cooldown_state,
                         alerts |-> alerts,
                         telegram |-> telegram]
          IN  /\ \E r \in Rows(analytics) :
                    r.instrument_token = symbol /\ r.time_minute = latest_time
              /\ \E in \in {AlertInputs(symbol, latest_time)} :
                    call' = [fn |-> "SymbolStep", symbol |-> symbol, time |-> latest_time,
                             oi_category |-> oi, before |-> before,
                             action |-> decide_action(oi, in.depth_bias, in.sector_bias,
                                                      in.index_bias, in.regime,
                                                      in.vix_state),
                             after |-> SymbolStep(before, symbol, latest_time, oi, save_ok,
                                                  TRUE)]
                            @@ in
    /\ UNCHANGED <<feedVars, oiVars, candleVars, analyticsVars, alertVars>>

GateClock == ClockTick(GateMinute)

GateFeed == on_ticks(FeedTokens, GatePayloads, GateTicks)

GateIndicatorCycle == process_latest_candles_rollup(GateOutcomes)

GateAlertCycle == process_alerts(OIReads, {TRUE})

GateNext ==
    \/ GateClock \/ GateFeed \/ CandleCycle \/ GateIndicatorCycle \/ GateAlertCycle
    \/ CallSymbolStep

SpecGate == Init /\ [][GateNext]_vars

(* SpecAlert: the pipeline in a trend, with market direction rows that can
   be missing, and grade_alert_quality called on its own *)

\* calculate_confidence returns max(0, min(100, ...))
MaxConfidence == 100

\* grade_alert_quality called on its own
CallGradeAlertQuality ==
    /\ call = NoCall
    /\ \E confidence \in 0..MaxConfidence :
          call' = [fn |-> "grade_alert_quality", confidence |-> confidence,
                   result |-> grade_alert_quality(confidence)]
    /\ UNCHANGED <<feedVars, oiVars, candleVars, analyticsVars, alertVars>>

(* SpecDirection: calculate_market_direction over the rows of one minute *)

\* the instruments whose rows the market direction reads: the three
\* indices and the stock of STOCK_TOKENS
DirectionTokens == INDEX_TOKENS \cup STOCK_TOKENS

\* the signal counts (bullish, bearish) of a row; none for an instrument
\* without a row of the minute
DirectionCounts ==
    { <<0, 0>>, <<1, 0>>, <<0, 1>>, <<1, 1>>, <<3, 1>>, <<1, 3>>, <<3, 2>>, <<2, 3>> }

NoRow == <<NoValue, NoValue>>

\* the minute_analytics row of an instrument with these counts: total_active
\* and the two percentages as calculate_all_indicators derives them
DirectionRow(tok, time_str, counts) ==
    [time_minute |-> time_str, instrument_token |-> tok,
     bullish_count |-> counts[1], bearish_count |-> counts[2]]
    @@ Outcome("RANGING", counts[1] + counts[2],
               IF counts[1] + counts[2] > 0
               THEN (counts[1] * 100) \div (counts[1] + counts[2]) ELSE 0,
               IF counts[1] + counts[2] > 0
               THEN (counts[2] * 100) \div (counts[1] + counts[2]) ELSE 0)

CallMarketDirection ==
    /\ call = NoCall
    /\ \E pick \in [DirectionTokens -> DirectionCounts \cup {NoRow}] :
          LET rows == {DirectionRow(tok, 0, pick[tok]) :
                         tok \in {t \in DirectionTokens : pick[t] # NoRow}}
              table == UpsertAll(EmptyTable, rows, AnalyticsPK)
          IN  call' = [fn |-> "calculate_market_direction", rows |-> rows,
                       result |-> calculate_market_direction(table, 0)]
    /\ UNCHANGED <<feedVars, oiVars, candleVars, analyticsVars, alertVars>>

DirectionNext == CallMarketDirection

SpecDirection == Init /\ [][DirectionNext]_vars

AlertClock == ClockTick(AlertMinute)

AlertFeed == on_ticks(FeedTokens, FeedPayloads, AlertTicks)

AlertIndicatorCycle == process_latest_candles_rollup(FeedOutcomes)

AlertEngineCycle == process_alerts({"LB", "NA"}, {TRUE})

AlertNext ==
    \/ AlertClock \/ AlertFeed \/ CandleCycle \/ AlertIndicatorCycle
    \/ AlertEngineCycle \/ CallGradeAlertQuality

SpecAlert == Init /\ [][AlertNext]_vars

(* SpecVisibility: the pipeline with the indicator engine's minute taken at
   its commits: the minute's rows first, its rollups after *)

\* the body of the "for time_row in time_rows" loop of process_latest_candles
\* for the oldest new minute, up to analytics_conn.commit(): the minute's rows
\* are visible to every reader, its rollups are still to be computed
process_minute_rows(outcomes) ==
    LET time_rows == NewCandleMinutes(AnalyticsWatermark(analytics), now)
    IN  /\ main_loop.pc = "running"
        /\ time_rows # {}
        /\ \E time_str \in {m \in time_rows : \A x \in time_rows : m <= x} :
              LET todo == {c \in Rows(candles) : /\ c.time_minute = time_str
                                                 /\ c.instrument_token \in PROCESSING_TOKENS}
              IN  \E pick \in [{CandleKey(c) : c \in todo} -> outcomes] :
                     /\ analytics' = UpsertAll(analytics,
                                               {AnalyticsRow(c, pick[CandleKey(c)]) : c \in todo},
                                               AnalyticsPK)
                     /\ main_loop' = [pc |-> "rollups", time_str |-> time_str,
                                      error_count |-> main_loop.error_count]
        /\ UNCHANGED <<feedVars, oiVars, candleVars, sector_analytics, market_direction,
                       candles_1m, candles_5m, executed, faults, failed_cycles,
                       alertVars, call>>

\* calculate_sector_analysis and calculate_market_direction for the minute
\* just committed, each with its own commit
process_minute_rollups ==
    /\ main_loop.pc = "rollups"
    /\ sector_analytics' = UpsertAll(sector_analytics,
                                     calculate_sector_analysis(analytics, main_loop.time_str),
                                     SectorPK)
    /\ market_direction' = UpsertAll(market_direction,
                                     {calculate_market_direction(analytics, main_loop.time_str)},
                                     MarketPK)
    /\ main_loop' = [pc |-> "running", error_count |-> main_loop.error_count]
    /\ UNCHANGED <<feedVars, oiVars, candleVars, analytics, candles_1m, candles_5m,
                   executed, faults, failed_cycles, alertVars, call>>

VisibilityRows == process_minute_rows(FeedOutcomes)

VisibilityNext ==
    \/ AlertClock \/ AlertFeed \/ CandleCycle \/ VisibilityRows
    \/ process_minute_rollups \/ AlertEngineCycle

SpecVisibility == Init /\ [][VisibilityNext]_vars

(* SpecOrder: the futures feed with the OI builder and the indicator engine
   run in any order *)

\* ticks of a future: a price and an open interest that rise or fall, on a
\* buyer-side book
FuturesPayloads ==
    { Payload(lp, 1, <<3>>, <<2>>) @@ [oi |-> oi] : lp \in 1..2, oi \in 1..2 }

OrderFeed == on_ticks({"BANKNIFTY"}, FuturesPayloads, OITicks)

OrderNext == OIClock \/ OrderFeed \/ CandleCycle \/ OIBuilderMain \/ IndicatorCycle

SpecOrder == Init /\ [][OrderNext]_vars

(* SpecBias: a future and a bank fed through the indicator engine, and the
   symbol pass of the alert engine on what the rollups hold *)

\* every signal of an instrument bullish, or every signal bearish
BiasOutcomes ==
    { Outcome("TRENDING_UP", 10, 100, 0),
      Outcome("TRENDING_DOWN", 10, 0, 100) }

BiasFeed == on_ticks({"BANKNIFTY", "HDFCBANK"}, FeedPayloads, AlertTicks)

BiasIndicatorCycle == process_latest_candles(BiasOutcomes)

BiasNext == AlertClock \/ BiasFeed \/ CandleCycle \/ BiasIndicatorCycle \/ CallSymbolStep

SpecBias == Init /\ [][BiasNext]_vars

(* SpecVix: a future and the volatility index fed through the candle builder
   and the indicator engine *)

\* ticks at 13 and at 20, either side of the initial current_vix
VixPayloads ==
    { Payload(13, 1, <<3>>, <<2>>),
      Payload(20, 1, <<3>>, <<2>>) }

VixFeed == on_ticks({"BANKNIFTY", VIX_TOKEN}, VixPayloads, AlertTicks)

VixNext == AlertClock \/ VixFeed \/ CandleCycle \/ IndicatorCycle

SpecVix == Init /\ [][VixNext]_vars

(* SpecDelivery: the pipeline in a trend with both futures fed and
   deliveries that can fail *)

DeliveryTokens == {"BANKNIFTY", "NIFTY"}

DeliveryFeed == on_ticks(DeliveryTokens, FeedPayloads, DeliveryTicks)

DeliveryCycle == process_alerts({"LB"}, BOOLEAN)

DeliveryNext ==
    \/ AlertClock \/ DeliveryFeed \/ CandleCycle \/ IndicatorCycle
    \/ DeliveryCycle

SpecDelivery == Init /\ [][DeliveryNext]_vars

-----------------------------------------------------------------------------
(* Properties of the candle builder, under SpecCandle *)

\* C1: every candle row is for a minute strictly earlier than the wall-clock
\* minute, so neither a row nor the watermark (the MAX of the rows) is ever
\* on a bucket that can still receive ticks.
C1_OnlyClosedMinutes ==
    \A r \in Rows(candles) : r.time_minute < now

\* the candle a bucket has when every stored tick of it is aggregated
FullCandle(tok, minute) == process_minute_candle(BucketTicks(ticks, tok, minute))

TickKeys == {<<ticks[i].tok, ticks[i].minute>> : i \in DOMAIN ticks}

\* C2: once the ticks have stopped (every stored tick is of a closed minute
\* and none arrived after the latest run) and the builder's main loop has run
\* again, every bucket with a valid price has a candle and every candle is
\* the aggregate of all the ticks stored for its bucket.
C2_NoTickLost ==
    (lastRun.kind = "main" /\ lastRun.settled /\ lastRun.n = Len(ticks)) =>
        /\ \A k \in TickKeys :
              FullCandle(k[1], k[2]) # NoCandle =>
                 \E r \in Rows(candles) : CandleKey(r) = k
        /\ \A r \in Rows(candles) :
              r = [instrument_token |-> r.instrument_token,
                   time_minute |-> r.time_minute]
                  @@ FullCandle(r.instrument_token, r.time_minute)

\* C3: the candle table holds exactly one row for every (instrument, minute)
\* it holds a row for, whatever cycles have run.
C3_OneCandlePerKey ==
    \A r \in Rows(candles) :
        CountRows(candles, {x \in Rows(candles) : CandleKey(x) = CandleKey(r)}) = 1

\* a cycle has just written a bucket that already had a row
C3_Recomputed ==
    /\ lastRun.rewrote
    /\ \E r \in Rows(candles) : r.time_minute >= lastRun.w

\* C4: a run of process_new_ticks with the watermark argument of the run
\* before it, and no tick stored in between, leaves the candle table as the
\* first run left it.
C4_Idempotent ==
    lastRun.rerun # "changed"

\* a second run over the same range has happened, and it wrote rows
C4_RanTwice ==
    lastRun.rerun = "same" /\ lastRun.rewrote

-----------------------------------------------------------------------------
(* Properties of the pipeline, under Spec *)

\* C5: no step lowers the candle builder's watermark, the indicator engine's
\* watermark or the alert engine's stored last_processed_time.
C5_WatermarksMonotone ==
    [][ /\ get_last_completed_minute' >= get_last_completed_minute
        /\ AnalyticsWatermark(analytics)' >= AnalyticsWatermark(analytics)
        /\ last_processed_time' >= last_processed_time ]_vars

\* all three watermarks have moved past their first bucket
C5_AllAdvanced ==
    /\ get_last_completed_minute >= 2
    /\ AnalyticsWatermark(analytics) >= 2
    /\ last_processed_time >= 1
    /\ last_processed_time < AnalyticsWatermark(analytics)

\* C6: the alert table holds at most one row per (instrument, minute).
C6_OneAlertPerKey ==
    \A i, j \in DOMAIN alerts :
        (alerts[i].symbol = alerts[j].symbol /\ alerts[i].time = alerts[j].time)
            => i = j

\* a minute that has an alert row was evaluated again after the row was
\* written (the signal is pending at that minute once more) because the
\* watermark write failed
C6_Reevaluated ==
    \E i \in DOMAIN alerts :
        /\ alerts[i].symbol \in DOMAIN pending_signal_state
        /\ pending_signal_state[alerts[i].symbol].pending_time = alerts[i].time
        /\ last_processed_time < alerts[i].time

\* C8: of two alert rows of one instrument with the same action, the later
\* written next after the earlier and less than 5 minutes after it, the
\* later one's confidence is at least 10 points away from the earlier one's.
C8_CooldownOnPersisted ==
    \A i, j \in DOMAIN alerts :
        ( /\ i < j
          /\ alerts[i].symbol = alerts[j].symbol
          /\ \A k \in DOMAIN alerts :
                (i < k /\ k < j) => alerts[k].symbol # alerts[i].symbol
          /\ alerts[i].recommended_action = alerts[j].recommended_action
          /\ alerts[j].time - alerts[i].time < 5 )
        => Abs(alerts[j].confidence - alerts[i].confidence) >= 10

-----------------------------------------------------------------------------
(* Properties of the alert engine's functions, under SpecCalls *)

\* C7: the gate passes only when the pending record has the same action and
\* is 0 to 2 minutes old; when the pending action differs or the record is
\* more than 2 minutes old, the gate does not pass and the record becomes
\* (action, T).
C7_TwoMinuteConfirmation ==
    call.fn = "check_signal_confirmation" =>
        LET had == "BANKNIFTY" \in DOMAIN call.pending
            gap == call.time - call.pending["BANKNIFTY"].pending_time
            same == call.pending["BANKNIFTY"].pending_action = call.action
        IN  /\ call.result => (had /\ same /\ gap >= 0 /\ gap <= 2)
            /\ (had /\ (~same \/ gap > 2)) =>
                  /\ ~call.result
                  /\ "BANKNIFTY" \in DOMAIN call.after
                  /\ call.after["BANKNIFTY"] =
                        [pending_action |-> call.action, pending_time |-> call.time]

\* BUY_PE pending from the minute before, BUY_PE again: the gate passed
C7_Confirmed ==
    /\ call.fn = "check_signal_confirmation"
    /\ call.result
    /\ call.action = "BUY_PE"
    /\ call.time = call.pending["BANKNIFTY"].pending_time + 1

\* C9: is_in_cooldown suppresses exactly when a record exists for the symbol,
\* its action is the action asked about, the minute is fewer than 5 minutes
\* after the recorded one and the confidence is fewer than 10 points away
\* from the recorded one.
C9_CooldownDecision ==
    call.fn = "is_in_cooldown" =>
        ( call.result <=>
            /\ "BANKNIFTY" \in DOMAIN call.state
            /\ call.state["BANKNIFTY"].last_alert_action = call.action
            /\ call.time - call.state["BANKNIFTY"].last_alert_time < 5
            /\ call.confidence - call.state["BANKNIFTY"].last_alert_confidence < 10
            /\ call.state["BANKNIFTY"].last_alert_confidence - call.confidence < 10 )

\* 70 recorded at T, 72 asked at T + 3: suppressed
C9_Suppressed ==
    /\ call.fn = "is_in_cooldown"
    /\ call.result
    /\ call.state["BANKNIFTY"].last_alert_confidence = 70
    /\ call.confidence = 72
    /\ call.time = call.state["BANKNIFTY"].last_alert_time + 3

\* C10: calculate_confidence returns an integer from 0 to 100 that is at most
\* 65 in a RANGING regime and at most 55 in a HIGH_VOLATILITY regime.
C10_ConfidenceBounds ==
    call.fn = "calculate_confidence" =>
        /\ call.result \in 0..100
        /\ call.regime = "RANGING" => call.result <= 65
        /\ call.regime = "HIGH_VOLATILITY" => call.result <= 55

\* a RANGING score with every source agreeing, held at the cap
C10_Capped ==
    /\ call.fn = "calculate_confidence"
    /\ call.regime = "RANGING"
    /\ call.oi_category = "LB"
    /\ call.depth_bias = "BUYER_DOMINANT"
    /\ call.sector_bias = "BULLISH"
    /\ call.index_bias = "BULLISH"
    /\ call.result = 65

-----------------------------------------------------------------------------
(* Properties of process_minute_candle, under SpecBucket *)

\* the bucket and the candle of the latest process_minute_candle call
CalledBucket == call.fn = "process_minute_candle" /\ call.result # NoCandle

\* the sum of a depth side's quantities
QtySum(side) == SumOver(side)

\* the sum of a depth side's quantities weighted by level, in tenths
WeightedQtySum(side) == SumOver([i \in DOMAIN side |-> side[i] * DEPTH_WEIGHTS[i]])

\* C11: the candle's total and weighted bid and ask quantities are the depth
\* sums of the bucket's last tick alone, whatever the earlier ticks carry.
C11_LastTickDepth ==
    (CalledBucket /\ call.minute_ticks[Len(call.minute_ticks)].data.ok) =>
        LET last == call.minute_ticks[Len(call.minute_ticks)].data
        IN  /\ call.result.total_bid_qty = QtySum(last.bid)
            /\ call.result.total_ask_qty = QtySum(last.ask)
            /\ call.result.weighted_bid_qty = WeightedQtySum(last.bid)
            /\ call.result.weighted_ask_qty = WeightedQtySum(last.ask)

\* bid quantities 100, 150, 120 in order: the candle carries 120
C11_ThreeSnapshots ==
    /\ CalledBucket
    /\ Len(call.minute_ticks) = 3
    /\ call.minute_ticks[1].data.bid = <<100>>
    /\ call.minute_ticks[2].data.bid = <<150>>
    /\ call.minute_ticks[3].data.bid = <<120>>
    /\ call.result.total_bid_qty = 120

\* the prices of the bucket's ticks that carry one, in arrival order
PricesOf(minute_ticks) ==
    LET priced == SelectSeq(minute_ticks, LAMBDA t : t.data.ok /\ t.data.lp # NoValue)
    IN  [i \in DOMAIN priced |-> priced[i].data.lp]

\* C12: open is the first price of the bucket, close the last, high the
\* greatest and low the least of all its prices, so low <= open, close <= high.
C12_OpenHighLowClose ==
    CalledBucket =>
        LET prices == PricesOf(call.minute_ticks)
            all == {prices[i] : i \in DOMAIN prices}
        IN  /\ call.result.open = prices[1]
            /\ call.result.close = prices[Len(prices)]
            /\ call.result.high \in all /\ \A x \in all : x <= call.result.high
            /\ call.result.low \in all /\ \A x \in all : call.result.low <= x
            /\ call.result.low <= call.result.open
            /\ call.result.open <= call.result.high
            /\ call.result.low <= call.result.close
            /\ call.result.close <= call.result.high

\* prices 10, 12, 11 in order: the high is neither the open nor the close
C12_HighInTheMiddle ==
    /\ CalledBucket
    /\ PricesOf(call.minute_ticks) = <<10, 12, 11>>
    /\ call.result.open = 10
    /\ call.result.high = 12
    /\ call.result.close = 11

\* the cumulative volumes of the bucket's ticks that carry one, in arrival order
VolumesOf(minute_ticks) ==
    LET withVol == SelectSeq(minute_ticks, LAMBDA t : t.data.ok /\ t.data.vol # NoValue)
    IN  [i \in DOMAIN withVol |-> withVol[i].data.vol]

\* C13: the candle's volume is the last cumulative volume of the bucket minus
\* the first, or the last alone when that difference is negative; for a
\* bucket of a single tick the difference is 0.
C13_VolumeDelta ==
    (CalledBucket /\ Len(VolumesOf(call.minute_ticks)) >= 1) =>
        LET volumes == VolumesOf(call.minute_ticks)
            delta == volumes[Len(volumes)] - volumes[1]
        IN  call.result.volume = IF delta < 0 THEN volumes[Len(volumes)] ELSE delta

\* C14: with bid and ask the total quantities of the last tick, the stored
\* ratio is bid/ask when ask > 0, 999.0 when ask = 0 < bid and 1.0 when both
\* are 0; the label is BUYER_DOMINANT iff the ratio is above 1.2,
\* SELLER_DOMINANT iff it is below 0.8, NEUTRAL otherwise; every bucket with
\* a price yields a candle.
C14_BiasLabel ==
    (call.fn = "process_minute_candle" /\ Len(PricesOf(call.minute_ticks)) >= 1
        /\ call.minute_ticks[Len(call.minute_ticks)].data.ok) =>
        LET last == call.minute_ticks[Len(call.minute_ticks)].data
            bid == QtySum(last.bid)
            ask == QtySum(last.ask)
            above == (ask > 0 /\ 10 * bid > 12 * ask) \/ (ask = 0 /\ bid > 0)
            below == ask > 0 /\ 10 * bid < 8 * ask
        IN  /\ call.result # NoCandle
            /\ call.result.bid_ask_ratio =
                  IF ask > 0 THEN (2 * 10000 * bid + ask) \div (2 * ask)
                  ELSE IF bid > 0 THEN 9990000 ELSE 10000
            /\ call.result.bid_ask_bias = "BUYER_DOMINANT" <=> above
            /\ call.result.bid_ask_bias = "SELLER_DOMINANT" <=> below
            /\ call.result.bid_ask_bias = "NEUTRAL" <=> (~above /\ ~below)

\* bid 45 against ask 50 in the last tick: ratio 0.9, NEUTRAL
C14_NineTenths ==
    /\ CalledBucket
    /\ call.minute_ticks[Len(call.minute_ticks)].data.bid = <<45>>
    /\ call.minute_ticks[Len(call.minute_ticks)].data.ask = <<50>>
    /\ call.result.bid_ask_ratio = 9000
    /\ call.result.bid_ask_bias = "NEUTRAL"

\* the bucket's ticks whose JSON parses
ValidTicks(minute_ticks) == SelectSeq(minute_ticks, LAMBDA t : t.data.ok)

\* C15: the candle of a bucket that holds ticks whose JSON does not parse is
\* the candle of the bucket's remaining ticks.
C15_MalformedSkipped ==
    call.fn = "process_minute_candle" =>
        call.result = process_minute_candle(ValidTicks(call.minute_ticks))

-----------------------------------------------------------------------------
(* Properties of one candle builder cycle, under SpecCycle *)

\* C16: the candle table changes only at the commit of a cycle, and then to
\* the table with the whole batch written; a cycle that failed (the read,
\* a tick timestamp, or an INSERT part-way) leaves the table as the cycle
\* found it.
C16_AtomicCycle ==
    [][ /\ candles' # candles =>
              /\ txn.pc = "writing" /\ txn.todo = {}
              /\ txn'.pc = "committed"
              /\ candles' = WriteAll(txn.before, txn.rows)
        /\ txn'.pc = "failed" => candles' = txn'.before ]_vars

\* an INSERT failed after a row of the batch had been written, on a table
\* that already held candles
C16_FailedPartWay ==
    /\ txn.pc = "failed"
    /\ txn.at = "write"
    /\ txn.written >= 1
    /\ candles # EmptyTable

-----------------------------------------------------------------------------
(* Properties of the OI builder, under SpecOI *)

\* C17: every row of the OI table has a price change and an OI change that
\* are not zero, and the category their two signs give: LB for (+,+), SB for
\* (-,+), SC for (+,-), LU for (-,-); a bucket with a zero change has no row.
C17_OICategoryBySign ==
    \A r \in Rows(futures_oi_category_1m) :
        /\ r.price_change = r.price_end - r.price_start
        /\ r.oi_change = r.oi_end - r.oi_start
        /\ r.price_change # 0
        /\ r.oi_change # 0
        /\ r.oi_category \in {"LB", "SB", "SC", "LU"}
        /\ r.oi_category = "LB" <=> (r.price_change > 0 /\ r.oi_change > 0)
        /\ r.oi_category = "SB" <=> (r.price_change < 0 /\ r.oi_change > 0)
        /\ r.oi_category = "SC" <=> (r.price_change > 0 /\ r.oi_change < 0)
        /\ r.oi_category = "LU" <=> (r.price_change < 0 /\ r.oi_change < 0)

\* the builder has run over minute 0 and minute 1: the bucket of minute 0,
\* whose price did not move while its OI rose, has no row; minute 1 has one
C17_ZeroChangeSkipped ==
    /\ \E r \in Rows(futures_oi_category_1m) : r.time_minute = 1
    /\ ~ \E r \in Rows(futures_oi_category_1m) : r.time_minute = 0
    /\ Len(ticks) = 4
    /\ ticks[1].minute = 0 /\ ticks[2].minute = 0
    /\ ticks[1].data = OIPayload(1, 1) /\ ticks[2].data = OIPayload(1, 2)

-----------------------------------------------------------------------------
(* Properties of the indicator engine, under SpecIndicator *)

\* C18: two minute_analytics rows the engine has written for the same
\* (instrument, minute) are the same row.
C18_SameRowAgain ==
    \A r1, r2 \in executed :
        Key(r1, AnalyticsPK) = Key(r2, AnalyticsPK) => r1 = r2

-----------------------------------------------------------------------------
(* Properties of the alert gate, under SpecGate *)

\* the confirmations of the four sources, counted one by one
ConfirmationCount(oi_category, depth_bias, sector_bias, index_bias, regime) ==
    Bit(\/ oi_category \in {"LB", "SC"} /\ depth_bias = "BUYER_DOMINANT"
        \/ oi_category \in {"SB", "LU"} /\ depth_bias = "SELLER_DOMINANT")
    + Bit(sector_bias = "BULLISH" \/ sector_bias = "BEARISH")
    + Bit(index_bias = "BULLISH" \/ index_bias = "BEARISH")
    + Bit(regime = "TRENDING_UP" \/ regime = "TRENDING_DOWN")

CalledSymbolStep == call.fn = "SymbolStep"

CallConfirmations ==
    ConfirmationCount(call.oi_category, call.depth_bias, call.sector_bias,
                      call.index_bias, call.regime)

\* C19: every alert in alerts_final has at least two confirmations among
\* OI+depth agreement, a BULLISH/BEARISH sector, a BULLISH/BEARISH index and
\* a trending regime; a symbol pass with fewer than two leaves the pending
\* signals, the cooldowns and the alert table as they were.
C19_MultiConfirmationGate ==
    /\ \A i \in DOMAIN alerts :
          ConfirmationCount(alerts[i].future_oi_category, alerts[i].depth_bias,
                            alerts[i].sector_bias, alerts[i].index_bias,
                            alerts[i].regime) >= 2
    /\ CalledSymbolStep /\ CallConfirmations < 2 => call.after = call.before

\* a pass stopped by the gate with one confirmation (OI and depth agree, in a
\* range, no market_direction row), whose confidence would have reached
\* MIN_CONFIDENCE
C19_OneConfirmation ==
    /\ CalledSymbolStep
    /\ CallConfirmations = 1
    /\ call.regime = "RANGING"
    /\ call.oi_category = "LB"
    /\ call.depth_bias = "BUYER_DOMINANT"
    /\ call.index_bias = "MIXED"
    /\ call.after = call.before

\* C20: no alert in alerts_final has regime HIGH_VOLATILITY; for a symbol
\* whose regime is HIGH_VOLATILITY decide_action answers WAIT whatever the
\* OI category and the depth are, and the symbol pass adds no alert.
C20_HighVolatilityWaits ==
    /\ \A i \in DOMAIN alerts : alerts[i].regime # "HIGH_VOLATILITY"
    /\ CalledSymbolStep /\ call.regime = "HIGH_VOLATILITY"
          => call.action = "WAIT" /\ call.after.alerts = call.before.alerts

\* a pass in high volatility with two bullish signals
C20_BullishInHighVolatility ==
    /\ CalledSymbolStep
    /\ call.regime = "HIGH_VOLATILITY"
    /\ call.oi_category = "LB"
    /\ call.depth_bias = "BUYER_DOMINANT"
    /\ call.action = "WAIT"
    /\ call.after.alerts = call.before.alerts

-----------------------------------------------------------------------------
(* Properties of the alert grades, under SpecAlert *)

\* the grade of a confidence: A+ from 80, A from 70, B from 60, else SKIP
GradeOf(confidence) ==
    CASE confidence >= 80 -> "A+"
      [] confidence >= 70 /\ confidence < 80 -> "A"
      [] confidence >= 60 /\ confidence < 70 -> "B"
      [] OTHER -> "SKIP"

\* C21: grade_alert_quality gives A+ from 80, A from 70, B from 60 and SKIP
\* below; every row of alerts_final has confidence 60 or more, the grade of
\* its confidence, which is A+, A or B, and an action that is neither WAIT
\* nor NO_TRADE.
C21_QualityGrading ==
    /\ call.fn = "grade_alert_quality" => call.result = GradeOf(call.confidence)
    /\ \A i \in DOMAIN alerts :
          /\ alerts[i].confidence >= MIN_CONFIDENCE
          /\ alerts[i].alert_quality \in {"A+", "A", "B"}
          /\ alerts[i].alert_quality = GradeOf(alerts[i].confidence)
          /\ alerts[i].recommended_action \notin {"WAIT", "NO_TRADE"}

\* an A+ alert is in the table, and the function was called on a threshold
C21_OnTheThreshold ==
    /\ \E i \in DOMAIN alerts : alerts[i].alert_quality = "A+"
    /\ call.fn = "grade_alert_quality"
    /\ call.confidence = 80
    /\ call.result = "A+"

-----------------------------------------------------------------------------
(* Properties of the delivery and of the watermark, under SpecDelivery *)

\* the alert row a sendMessage request was made for
RowOf(message) ==
    {i \in DOMAIN alerts : /\ alerts[i].time = message.time
                           /\ alerts[i].symbol = message.symbol
                           /\ alerts[i].alert_quality = message.alert_quality}

SaveFailedFor(symbol) ==
    /\ symbol \in DOMAIN pending_signal_state
    /\ symbol \notin DOMAIN pending_signal_state'
    /\ symbol \notin DOMAIN alert_cooldown_state
    /\ Len(alerts') > Len(alerts) =>
           \A i \in (Len(alerts) + 1)..Len(alerts') : alerts'[i].symbol # symbol

\* C23: a step in which persisting the alert decided for the minute
\* evaluated fails does not move last_processed_time onto that minute.
C23_WatermarkAfterCommit ==
    [][ \A symbol \in SymbolSet :
          (SaveFailedFor(symbol) /\ last_processed_time < AnalyticsWatermark(analytics))
             => last_processed_time' < AnalyticsWatermark(analytics) ]_vars

-----------------------------------------------------------------------------
(* Properties of the indicator engine's main loop, under SpecBudget *)

\* C24: after max_errors failed cycles in a row main has stopped, and while
\* it runs its error counter is the number of failed cycles in a row.
C24_ErrorBudget ==
    /\ failed_cycles >= max_errors => main_loop.pc = "stopped"
    /\ main_loop.pc = "running" => main_loop.error_count = failed_cycles

-----------------------------------------------------------------------------
(* Properties of the OI builder's rows against the stored ticks, under SpecOI *)

\* the ticks of one (instrument, minute) that carry an open interest, in
\* ts_ist order
OIBucket(tok, minute) ==
    SelectSeq(ticks, LAMBDA t :
        t.tok = tok /\ t.minute = minute /\ t.data.ok /\ t.data.oi # NoValue)

\* the OI table once the builder has run again over the ticks stored now
OIAfterRun ==
    UpsertAll(futures_oi_category_1m, OICycleRows(get_last_processed_minute), OIPK)

\* C25: with the ticks stored now and the OI builder run once more, every
\* row starts at the first and ends at the last tick of its whole bucket, and
\* every bucket whose first and last tick differ in price and in open
\* interest has a row.
C25_OIRowCompleteness ==
    LET stored == Rows(OIAfterRun)
    IN  /\ \A r \in stored :
              LET bucket == OIBucket(r.instrument_token, r.time_minute)
              IN  /\ bucket # << >>
                  /\ r.price_start = bucket[1].data.lp
                  /\ r.oi_start = bucket[1].data.oi
                  /\ r.price_end = bucket[Len(bucket)].data.lp
                  /\ r.oi_end = bucket[Len(bucket)].data.oi
        /\ \A i \in DOMAIN ticks :
              LET bucket == OIBucket(ticks[i].tok, ticks[i].minute)
              IN  (/\ ticks[i].tok \in {"BANKNIFTY", "NIFTY"}
                   /\ bucket # << >>
                   /\ bucket[1].data.lp # bucket[Len(bucket)].data.lp
                   /\ bucket[1].data.oi # bucket[Len(bucket)].data.oi)
                  => \E r \in stored : /\ r.instrument_token = ticks[i].tok
                                       /\ r.time_minute = ticks[i].minute

-----------------------------------------------------------------------------
(* Properties of the indicator engine's window of minutes, under SpecWindow *)

\* the minutes that have a row in a table
MinutesOf(table) == {r.time_minute : r \in Rows(table)}

\* the candle minutes later than the watermark and earlier than the clock
EligibleMinutes ==
    {c.time_minute : c \in {r \in Rows(candles) :
        r.time_minute > AnalyticsWatermark(analytics) /\ r.time_minute < now}}

\* C26: no indicator, sector or market-direction row is of the current or a
\* later minute; the minutes a cycle adds to minute_analytics are candle
\* minutes after the watermark and before the current minute, taken oldest
\* first (a minute is added only with every older eligible minute), and a
\* cycle that completes adds all of them.
C26_CompletedMinutesAscending ==
    /\ [](\A m \in MinutesOf(analytics) \cup MinutesOf(sector_analytics)
                     \cup MinutesOf(market_direction) : m < now)
    /\ [][ analytics' # analytics =>
             LET added == MinutesOf(analytics') \ MinutesOf(analytics)
             IN  /\ added \subseteq EligibleMinutes
                 /\ \A m \in added : \A e \in EligibleMinutes : e < m => e \in added
                 /\ faults' = faults => added = EligibleMinutes ]_vars

\* the engine has processed minute 0 and left alone the candle of minute 1,
\* the current minute, which the candle builder has already written
C26_CurrentMinuteLeft ==
    /\ now = 1
    /\ MinutesOf(analytics) = {0}
    /\ 1 \in MinutesOf(candles)

-----------------------------------------------------------------------------
(* Properties of the indicator engine's 5-minute window, under SpecIndicator *)

\* C27: an instrument's 5-minute window holds one candle per five one-minute
\* candles appended, the i-th folded from the appends 5i-4 .. 5i, so that no
\* two 5-minute candles share a one-minute candle.
C27_FiveMinuteFold ==
    \A symbol \in DOMAIN candles_1m :
        LET five == Deque(candles_5m, symbol)
        IN  /\ Len(five) = Len(candles_1m[symbol]) \div 5
            /\ \A i \in 1..Len(five) :
                  five[i].first = 5 * i - 4 /\ five[i].last = 5 * i

\* C28: in every minute_analytics row an INSERT of the engine wrote the three
\* counts add up to the number of SIGNAL_KEYS, total_active is the bullish
\* plus the bearish count, and the two percentages add up to 100 when
\* total_active is positive and are both 0 when it is 0.
C28_SignalCounts ==
    \A r \in executed :
        /\ r.bullish_count + r.bearish_count + r.neutral_count = Cardinality(SIGNAL_KEYS)
        /\ r.total_active = r.bullish_count + r.bearish_count
        /\ r.total_active > 0 => r.bullish_percentage + r.bearish_percentage = 100
        /\ r.total_active = 0 => r.bullish_percentage = 0 /\ r.bearish_percentage = 0

\* C29: while the engine has neither failed nor restarted, the row of a
\* candle that is at least the MinCandles-th of its instrument has a depth
\* signal of 1 exactly when the candle's bid_ask_ratio is at least 1.5 and
\* its order_imbalance at least 100, of -1 exactly when the ratio is at most
\* 0.67 (0 with an empty bid side included) and the imbalance at most -100,
\* of 0 otherwise, and stores the candle's own ratio.
C29_DepthSignal ==
    faults = 0 =>
      \A r \in executed : \A c \in Rows(candles) :
        (/\ CandleKey(c) = CandleKey(r)
         /\ r.time_minute >= MinCandles - 1)
        => /\ r.depth_signal \in {-1, 0, 1}
           /\ r.depth_signal = 1 <=> (/\ c.bid_ask_ratio >= BUY_THRESHOLD
                                      /\ c.order_imbalance >= ORDER_IMBALANCE_THRESHOLD)
           /\ r.depth_signal = -1 <=> (/\ c.bid_ask_ratio <= SELL_THRESHOLD
                                       /\ c.order_imbalance <= -ORDER_IMBALANCE_THRESHOLD)
           /\ r.bid_ask_ratio = c.bid_ask_ratio

-----------------------------------------------------------------------------
(* Properties of the market direction, under SpecDirection *)

\* the market_direction row of the latest calculate_market_direction call
DirectionResult == call.result

\* C30: the label is STRONG_BUY or BUY only with overall_buy above
\* overall_sell and STRONG_SELL or SELL only with overall_sell above
\* overall_buy; on the higher side it is STRONG above 65 and plain above 55,
\* and NEUTRAL in every other case.
C30_DirectionFollowsHigherSide ==
    call.fn = "calculate_market_direction" =>
      LET buy == DirectionResult.overall_buy.n
          sell == DirectionResult.overall_sell.n
          scale == DirectionResult.overall_buy.d
          label == DirectionResult.direction
      IN  /\ DirectionResult.overall_sell.d = scale
          /\ label \in {"STRONG_BUY", "BUY"} => buy > sell
          /\ label \in {"STRONG_SELL", "SELL"} => sell > buy
          /\ label = "STRONG_BUY" <=> (buy > sell /\ buy > 65 * scale)
          /\ label = "BUY" <=> (buy > sell /\ buy > 55 * scale /\ buy <= 65 * scale)
          /\ label = "STRONG_SELL" <=> (sell > buy /\ sell > 65 * scale)
          /\ label = "SELL" <=> (sell > buy /\ sell > 55 * scale /\ sell <= 65 * scale)
          /\ label = "NEUTRAL" <=> (buy <= 55 * scale /\ sell <= 55 * scale)

\* a minute labelled SELL whose buy side is not empty: the test of the buy
\* side came first and did not take it
C30_SellSideHigher ==
    /\ call.fn = "calculate_market_direction"
    /\ DirectionResult.direction = "SELL"
    /\ DirectionResult.overall_buy.n > 35 * DirectionResult.overall_buy.d

-----------------------------------------------------------------------------
(* Properties of calculate_confidence against the formula, under SpecCalls *)

\* The score of the called inputs by the formula, in exact arithmetic: the
\* OI and depth points (40 in agreement, 20 when a side fires without it),
\* by the OI weight and the depth multiplier in tenths; the sector, index,
\* trend and VIX points; the half under conflict; the regime factor in
\* hundredths; the regime cap; 0..100.  Every product is cut to an integer.
ReferenceConfidence ==
    LET oi_dir == IF call.oi_category \in {"LB", "SC"} THEN 1
                  ELSE IF call.oi_category \in {"SB", "LU"} THEN -1 ELSE 0
        depth_dir == IF call.depth_bias = "BUYER_DOMINANT" THEN 1
                     ELSE IF call.depth_bias = "SELLER_DOMINANT" THEN -1 ELSE 0
        bull == oi_dir = 1 \/ depth_dir = 1
        bear == oi_dir = -1 \/ depth_dir = -1
        Aligned(bias) == (bias = "BULLISH" /\ bull) \/ (bias = "BEARISH" /\ bear)
        points == IF oi_dir # 0 /\ oi_dir = depth_dir THEN 40
                  ELSE IF bull \/ bear THEN 20 ELSE 0
        weight == IF call.oi_category \in {"SC", "LU"} THEN 6 ELSE 10
        ratio == call.weighted_ratio
        multiplier == IF ratio = NoValue THEN 10
                      ELSE IF ratio > 20000 THEN 12
                      ELSE IF ratio >= 12000 THEN 10
                      ELSE IF ratio >= 8000 THEN 8
                      ELSE IF ratio >= 5000 THEN 10 ELSE 12
        sum == (((points * weight) \div 10) * multiplier) \div 10
               + (IF Aligned(call.sector_bias) THEN 30
                  ELSE IF call.sector_bias = "NEUTRAL" THEN 15 ELSE 0)
               + (IF Aligned(call.index_bias) THEN 20
                  ELSE IF call.index_bias = "MIXED" THEN 10 ELSE 0)
               + (IF (call.regime = "TRENDING_UP" /\ bull)
                     \/ (call.regime = "TRENDING_DOWN" /\ bear) THEN 5 ELSE 0)
               + (IF call.vix_state \in {"LOW", "NORMAL"} THEN 5
                  ELSE IF call.vix_state = "HIGH" THEN 2 ELSE 0)
        settled == IF oi_dir * depth_dir = -1 /\ call.oi_category # "NA"
                   THEN sum \div 2 ELSE sum
        factor == IF call.regime = "RANGING" THEN 85
                  ELSE IF call.regime = "HIGH_VOLATILITY" THEN 70 ELSE 100
        cap == IF call.regime = "RANGING" THEN 65
               ELSE IF call.regime = "HIGH_VOLATILITY" THEN 55 ELSE 100
        scaled == (settled * factor) \div 100
        capped == IF scaled > cap THEN cap ELSE scaled
    IN  IF capped > 100 THEN 100 ELSE IF capped < 0 THEN 0 ELSE capped

\* C31: for every input, calculate_confidence returns the score of the
\* formula: 40 or 20 points of OI and depth by the OI weight and the depth
\* multiplier, plus the sector, index, trend and VIX points, halved when OI
\* and depth point in opposite directions, then multiplied by the regime
\* factor and clamped to the regime cap and to 0..100, in that order.
C31_ConfidenceFormula ==
    call.fn = "calculate_confidence" => call.result = ReferenceConfidence

\* an SC category against seller-dominant depth in a RANGING regime: 20
\* points weighted to 12 and multiplied to 9, 59 in all, halved to 29 and
\* scaled to 24
C31_HalvedThenScaled ==
    /\ call.fn = "calculate_confidence"
    /\ call.oi_category = "SC"
    /\ call.depth_bias = "SELLER_DOMINANT"
    /\ call.sector_bias = "BULLISH"
    /\ call.index_bias = "BULLISH"
    /\ call.regime = "RANGING"
    /\ call.vix_state = "EXTREME"
    /\ call.weighted_ratio = 8000
    /\ call.result = 24

-----------------------------------------------------------------------------
(* Properties of decide_action, under SpecDecision *)

\* the sources of the called inputs that point up, and those that point down
BullishSources ==
    {s \in {"oi", "depth", "sector", "index"} :
        \/ s = "oi" /\ call.oi_category \in {"LB", "SC"}
        \/ s = "depth" /\ call.depth_bias = "BUYER_DOMINANT"
        \/ s = "sector" /\ call.sector_bias = "BULLISH"
        \/ s = "index" /\ call.index_bias = "BULLISH"}

BearishSources ==
    {s \in {"oi", "depth", "sector", "index"} :
        \/ s = "oi" /\ call.oi_category \in {"SB", "LU"}
        \/ s = "depth" /\ call.depth_bias = "SELLER_DOMINANT"
        \/ s = "sector" /\ call.sector_bias = "BEARISH"
        \/ s = "index" /\ call.index_bias = "BEARISH"}

\* C32: with bullish and bearish the numbers of agreeing sources among OI,
\* depth, sector and index, RANGING gives SELL_PE_PREMIUM on two bullish,
\* else SELL_CE_PREMIUM on two bearish, else WAIT; TRENDING_UP gives BUY_CE
\* on two bullish, else BUY_PE on two bearish, else WAIT; TRENDING_DOWN gives
\* BUY_PE on two bearish, else BUY_CE on two bullish, else WAIT; and no
\* action but WAIT comes with fewer than two sources on its side.
C32_ActionDecision ==
    call.fn = "decide_action" =>
        LET bullish == Cardinality(BullishSources)
            bearish == Cardinality(BearishSources)
        IN  /\ call.regime = "RANGING" =>
                  call.result = IF bullish >= 2 THEN "SELL_PE_PREMIUM"
                                ELSE IF bearish >= 2 THEN "SELL_CE_PREMIUM" ELSE "WAIT"
            /\ call.regime = "TRENDING_UP" =>
                  call.result = IF bullish >= 2 THEN "BUY_CE"
                                ELSE IF bearish >= 2 THEN "BUY_PE" ELSE "WAIT"
            /\ call.regime = "TRENDING_DOWN" =>
                  call.result = IF bearish >= 2 THEN "BUY_PE"
                                ELSE IF bullish >= 2 THEN "BUY_CE" ELSE "WAIT"
            /\ call.result \in {"BUY_CE", "SELL_PE_PREMIUM"} => bullish >= 2
            /\ call.result \in {"BUY_PE", "SELL_CE_PREMIUM"} => bearish >= 2
            /\ call.result \in TradeActions \cup {"WAIT"}

\* a falling trend with two sources on either side: the trend's side wins
C32_TrendSideFirst ==
    /\ call.fn = "decide_action"
    /\ call.regime = "TRENDING_DOWN"
    /\ Cardinality(BullishSources) = 2
    /\ Cardinality(BearishSources) = 2
    /\ call.result = "BUY_PE"

-----------------------------------------------------------------------------
(* Properties of the engine's rolling windows, under SpecIndicator *)

\* the window holds no minute twice
OncePerMinute(window) ==
    \A i, j \in DOMAIN window : window[i].timestamp = window[j].timestamp => i = j

\* C33: no rolling window of the engine, of one-minute or of 5-minute
\* candles, holds the same minute twice, whatever cycles failed after their
\* appends and were redone.
C33_AppendedOnce ==
    /\ \A symbol \in DOMAIN candles_1m : OncePerMinute(candles_1m[symbol])
    /\ \A symbol \in DOMAIN candles_5m : OncePerMinute(candles_5m[symbol])

-----------------------------------------------------------------------------
(* Properties of the confirmation gate in the symbol pass, under SpecConfirm *)

\* the signal of the called pass meets a pending record of its action that
\* is one or two minutes old: it passes the gate
CalledSignalPasses ==
    /\ call.fn = "SymbolStepTwice"
    /\ "BANKNIFTY" \in DOMAIN call.before.pending
    /\ call.before.pending["BANKNIFTY"].pending_action = call.action
    /\ call.time - call.before.pending["BANKNIFTY"].pending_time \in 1..2

\* C34: when a signal passes the gate the instrument's pending record is
\* cleared, whether or not the alert is then suppressed by the cooldown or
\* fails to persist; the same signal at the minute evaluated next is
\* recorded as pending and adds no alert and no message.
C34_ConfirmationConsumed ==
    CalledSignalPasses =>
        /\ "BANKNIFTY" \notin DOMAIN call.first.pending
        /\ "BANKNIFTY" \in DOMAIN call.second.pending
        /\ call.second.pending["BANKNIFTY"] =
              [pending_action |-> call.action, pending_time |-> call.next_time]
        /\ call.second.alerts = call.first.alerts
        /\ call.second.telegram = call.first.telegram
        /\ call.second.cooldown = call.first.cooldown

\* a confirmed BUY_CE that the cooldown suppressed: no alert was saved, and
\* the minute after the signal is pending again
C34_SuppressedAndConsumed ==
    /\ CalledSignalPasses
    /\ call.action = "BUY_CE"
    /\ call.save_ok
    /\ call.first.alerts = << >>
    /\ call.next_time = call.time + 1
    /\ "BANKNIFTY" \in DOMAIN call.second.pending

-----------------------------------------------------------------------------
(* Properties across the indicator and the alert engine, under SpecVisibility *)

\* C35: whenever the alert engine evaluates a minute and advances its
\* watermark to it, the market direction row and the sector rollup rows the
\* indicator engine produces for that minute are committed.
C35_RollupsVisible ==
    [][last_processed_time' # last_processed_time =>
          /\ \E r \in Rows(market_direction) : r.time_minute = last_processed_time'
          /\ calculate_sector_analysis(analytics, last_processed_time')
                \subseteq Rows(sector_analytics)]_vars

-----------------------------------------------------------------------------
(* Properties across the OI builder and the indicator engine, under SpecOrder *)

\* C36: a minute_analytics row of a future carries the category of the
\* futures_oi_category_1m row of its instrument and minute whenever the OI
\* builder has written one, in whatever order the two ran.
C36_CarriesOICategory ==
    \A r \in Rows(analytics) :
        \A o \in Rows(futures_oi_category_1m) :
            (r.instrument_token = o.instrument_token /\ r.time_minute = o.time_minute)
                => r.oi_category = o.oi_category

-----------------------------------------------------------------------------
(* Properties of the biases the alert engine reads, under SpecBias *)

\* the signal of the banking rollup the indicator engine wrote for the
\* minute of the called pass ("none" without one)
BankingSignal ==
    LET banking == {r \in Rows(sector_analytics) :
                       r.time_minute = call.time /\ r.sector_name = "BANKING"}
    IN  IF banking = {} THEN "none" ELSE (CHOOSE r \in banking : TRUE).signal

\* C37: a symbol pass for a minute whose banking rollup has signal BUY uses
\* the sector bias BULLISH, and one whose rollup has SELL uses BEARISH.
C37_SectorBiasFromRollup ==
    CalledSymbolStep =>
        /\ BankingSignal = "BUY" => call.sector_bias = "BULLISH"
        /\ BankingSignal = "SELL" => call.sector_bias = "BEARISH"

\* the label of the market_direction row of the minute of the called pass
\* ("none" without one)
DirectionLabel ==
    LET market_dir == {r \in Rows(market_direction) : r.time_minute = call.time}
    IN  IF market_dir = {} THEN "none" ELSE (CHOOSE r \in market_dir : TRUE).direction

\* C38: a symbol pass for a minute whose market direction is BUY or
\* STRONG_BUY uses the index bias BULLISH, and one whose direction is SELL or
\* STRONG_SELL uses BEARISH.
C38_IndexBiasFromDirection ==
    CalledSymbolStep =>
        /\ DirectionLabel \in {"BUY", "STRONG_BUY"} => call.index_bias = "BULLISH"
        /\ DirectionLabel \in {"SELL", "STRONG_SELL"} => call.index_bias = "BEARISH"

-----------------------------------------------------------------------------
(* Properties of the volatility columns, under SpecVix *)

\* the state analyze_vix gives a volatility reading
VixStateOf(vix) ==
    IF vix < 12 THEN "LOW"
    ELSE IF vix < 15 THEN "NORMAL"
    ELSE IF vix < 18 THEN "HIGH"
    ELSE "EXTREME"

\* the candles of the volatility index at or before a minute
VixCandlesUpTo(time_minute) ==
    {c \in Rows(candles) : c.instrument_token = VIX_TOKEN /\ c.time_minute <= time_minute}

\* C39: an indicator row of a minute at or after a minute with a candle of
\* the volatility index carries the close of the latest such candle as
\* vix_value, and the state derived from that close as vix_state.
C39_RowsCarryVixClose ==
    \A r \in Rows(analytics) :
        \A v \in VixCandlesUpTo(r.time_minute) :
            (\A w \in VixCandlesUpTo(r.time_minute) : w.time_minute <= v.time_minute)
                => /\ r.vix_value = v.close
                   /\ r.vix_state = VixStateOf(v.close)

=============================================================================
